---- MODULE Spec2Model ----
(***************************************************************************)
(* Evaluation core of the Rhai engine (src/src/engine.rs): the function    *)
(* registry and its dispatch (call_fn), the tree-walking evaluator         *)
(* (eval_expr, eval_stmt, dotted get/set) and the entry points             *)
(* (eval_with_scope, consume_with_scope, eval, consume).                   *)
(*                                                                         *)
(* A Box<Any> is a record tagged by its type name in field t.  A           *)
(* Result<Box<Any>, EvalAltResult> is a record whose field e is "Ok" or    *)
(* the name of the EvalAltResult variant.  The parser is an external       *)
(* collaborator: a script is given by its parse tree (os, fns).            *)
(* The "modules" cargo feature is off.                                     *)
(***************************************************************************)
EXTENDS Integers, Sequences, FiniteSets, TLC

VARIABLES
    fns,      \* Engine.fns: name -> ordered list of candidates
    scope,    \* the caller-supplied Scope (Scope.symbols)
    result,   \* what the last API call returned
    args,     \* the caller's argument boxes after the last call_fn
    last      \* the last API call and its inputs

vars == <<fns, scope, result, args, last>>

\* ------------------------------------------------------------------ bounds
MaxInt == 3        \* i64 values kept in a state are 0..MaxInt
MaxScope == 2      \* bindings kept in the caller's scope
MaxIter == 6       \* iterations a while/loop statement may take
MaxCands == 2      \* candidates kept under one registry name

\* ------------------------------------------------------------------ values
IntV(i) == [t |-> "i64", i |-> i]
BoolV(b) == [t |-> "bool", b |-> b]
UnitV == [t |-> "unit"]
ArrV(s) == [t |-> "array", a |-> s]
PointV(x) == [t |-> "Point", x |-> x]
OuterV(y) == [t |-> "Outer", y |-> y]

\* ------------------------------------------------------------------ results
Ok(v) == [e |-> "Ok", v |-> v]
Err(e) == [e |-> e]
ErrorVariableNotFound(n) == [e |-> "ErrorVariableNotFound", n |-> n]
\* faulty variant: a return statement yields its value as an ordinary result
ReturnAsOk(v) == [e |-> "Ok", v |-> v]
Return(v) == [e |-> "Return", v |-> v]
ErrorFunctionArgMismatch == Err("ErrorFunctionArgMismatch")
ErrorFunctionNotFound == Err("ErrorFunctionNotFound")
LoopBreak == Err("LoopBreak")
ErrorAssignmentToUnknownLHS == Err("ErrorAssignmentToUnknownLHS")
\* faulty variant: a malformed dot chain is reported as an unknown left-hand side
MalformedAsUnknownLHS == Err("ErrorAssignmentToUnknownLHS")
InternalErrorMalformedDotExpression == Err("InternalErrorMalformedDotExpression")
IsOk(r) == r.e = "Ok"
\* A call that does not return: an out-of-range array index traps, a loop
\* that exceeds MaxIter iterations is cut off.
NoReturn(r) == r.e \in {"Panic", "Diverge"}

\* ------------------------------------------------------------------ AST
IntConst(i) == [k |-> "IntConst", i |-> i]
True == [k |-> "True"]
False == [k |-> "False"]
Identifier(n) == [k |-> "Identifier", n |-> n]
Index(n, e) == [k |-> "Index", n |-> n, idx |-> e]
Assignment(l, r) == [k |-> "Assignment", lhs |-> l, rhs |-> r]
Dot(l, r) == [k |-> "Dot", lhs |-> l, rhs |-> r]
Array(es) == [k |-> "Array", items |-> es]
FnCall(n, as) == [k |-> "FnCall", n |-> n, args |-> as]

SExpr(e) == [k |-> "Expr", e |-> e]
Block(ss) == [k |-> "Block", body |-> ss]
If(g, b) == [k |-> "If", guard |-> g, body |-> b]
IfElse(g, b, e) == [k |-> "IfElse", guard |-> g, body |-> b, else_body |-> e]
While(g, b) == [k |-> "While", guard |-> g, body |-> b]
Loop(b) == [k |-> "Loop", body |-> b]
Break == [k |-> "Break"]
ReturnStmt == [k |-> "Return"]
ReturnWithVal(e) == [k |-> "ReturnWithVal", e |-> e]
Var(n, init) == [k |-> "Var", n |-> n, init |-> init]   \* init: <<>> or <<expr>>

FnDef(n, ps, b) == [name |-> n, params |-> ps, body |-> b]

\* ------------------------------------------------------------------ candidates
\* FnType: ExternalFn0..6 are one shape with the arity as a field.
ExternalFn(k, f) == [kind |-> "ExternalFn", arity |-> k, f |-> f]
InternalFn(d) == [kind |-> "InternalFn", def |-> d]
\* ------------------------------------------------------------------ natives
\* The typed wrappers of fn_register (NativeAdapter): every argument is
\* downcast to the parameter type; a failed downcast gives
\* ErrorFunctionArgMismatch, otherwise the host function runs.  A parameter
\* taken as &mut T lets the host function change the caller's box.
ParamTypes(f) ==
    CASE f = "clone_i64" -> <<"i64">>
      [] f = "clone_bool" -> <<"bool">>
      [] f = "clone_Point" -> <<"Point">>
      [] f = "add_i64" -> <<"i64", "i64">>
      [] f = "lt_i64" -> <<"i64", "i64">>
      [] f = "eq_i64" -> <<"i64", "i64">>
      [] f = "new_point" -> <<>>
      [] f = "get_x" -> <<"Point">>
      [] f = "set_x" -> <<"Point", "i64">>
      [] f = "update" -> <<"Point">>
      [] f = "clone_Outer" -> <<"Outer">>
      [] f = "new_outer" -> <<>>
      [] f = "get_y" -> <<"Outer">>
      [] f = "set_y" -> <<"Outer", "Point">>
      [] f = "first" -> <<"i64">>
      [] f = "second" -> <<"i64">>
      [] f = "of_bool" -> <<"bool">>
      [] f = "pair" -> <<"i64", "i64">>
      [] OTHER -> <<>>

\* The host functions: the value returned and the argument boxes afterwards.
HostFn(f, a) ==
    CASE f \in {"clone_i64", "clone_bool", "clone_Point", "clone_Outer"} -> [v |-> a[1], a |-> a]
      [] f = "new_outer" -> [v |-> OuterV(PointV(0)), a |-> a]
      [] f = "get_y" -> [v |-> a[1].y, a |-> a]
      [] f = "set_y" -> [v |-> UnitV, a |-> <<OuterV(a[2]), a[2]>>]
      [] f = "add_i64" -> [v |-> IntV(a[1].i + a[2].i), a |-> a]
      [] f = "lt_i64" -> [v |-> BoolV(a[1].i < a[2].i), a |-> a]
      [] f = "eq_i64" -> [v |-> BoolV(a[1].i = a[2].i), a |-> a]
      [] f = "new_point" -> [v |-> PointV(0), a |-> a]
      [] f = "get_x" -> [v |-> IntV(a[1].x), a |-> a]
      [] f = "set_x" -> [v |-> UnitV, a |-> <<PointV(a[2].i), a[2]>>]
      [] f = "update" -> [v |-> UnitV, a |-> <<PointV(IF a[1].x = 0 THEN 1 ELSE 0)>>]
      [] f = "first" -> [v |-> IntV(1), a |-> <<IntV(1)>>]
      [] f = "second" -> [v |-> IntV(2), a |-> <<IntV(2)>>]
      [] f = "of_bool" -> [v |-> IntV(3), a |-> a]
      [] f = "pair" -> [v |-> IntV(3), a |-> a]
      [] OTHER -> [v |-> UnitV, a |-> a]

\* Closures a host pushes into Engine.fns itself (fns and FnType are pub):
\* they need not go through the typed wrappers and may return any error.
RawFns == {"fail_index"}
RawError(f) == Err("ErrorIndexMismatch")

\* Invoking an ExternalFn candidate f on the boxes a.
Native(f, a) ==
    IF f \in RawFns THEN [r |-> RawError(f), a |-> a]
    ELSE IF \A i \in 1..Len(a) : a[i].t = ParamTypes(f)[i]
         THEN LET h == HostFn(f, a) IN [r |-> Ok(h.v), a |-> h.a]
         ELSE [r |-> ErrorFunctionArgMismatch, a |-> a]

\* ------------------------------------------------------------------ registry
\* faulty variant: the new candidate is put before the older ones
InstallFront(E, name, c) ==
    IF name \in DOMAIN E THEN [E EXCEPT ![name] = <<c>> \o @]
    ELSE E @@ (name :> <<c>>)

\* self.fns.entry(name).or_insert_with(Vec::new).push(c)
Install(E, name, c) ==
    IF name \in DOMAIN E THEN [E EXCEPT ![name] = Append(@, c)]
    ELSE E @@ (name :> <<c>>)

\* Engine::new(): the default library, as far as it concerns i64 and bool.
register_default_lib ==
    ("clone" :> <<ExternalFn(1, "clone_i64"), ExternalFn(1, "clone_bool")>>)
    @@ ("+" :> <<ExternalFn(2, "add_i64")>>)
    @@ ("<" :> <<ExternalFn(2, "lt_i64")>>)
    @@ ("==" :> <<ExternalFn(2, "eq_i64")>>)

\* register_type::<Point>()
register_type(E) == Install(E, "clone", ExternalFn(1, "clone_Point"))
\* register_get_set("x", ..)
register_get_set(E) ==
    Install(Install(E, "get$x", ExternalFn(1, "get_x")), "set$x", ExternalFn(2, "set_x"))

\* register_type::<Outer>(), register_get_set("y", ..), and its constructor
register_outer(E) ==
    Install(Install(Install(Install(E, "clone", ExternalFn(1, "clone_Outer")),
                            "get$y", ExternalFn(1, "get_y")),
                    "set$y", ExternalFn(2, "set_y")),
            "new_outer", ExternalFn(0, "new_outer"))

\* The engine a host sets up: Engine::new(), the host type Point with its
\* member x, its method update and its constructor new_point, and the host
\* type Outer with its member y, a Point.
HostEngine ==
    register_outer(
        Install(Install(register_get_set(register_type(register_default_lib)),
                        "update", ExternalFn(1, "update")),
                "new_point", ExternalFn(0, "new_point")))
\* ------------------------------------------------------------------ scope
Binding(n, v) == [name |-> n, val |-> v]
\* faulty variant: the name of the binding is not compared
NameMatchesAny(id, name) == TRUE
NameMatches(id, name) == id = name

\* faulty variant: the scope is searched from its beginning
FindBindingOutermost(s, id) ==
    LET m == {i \in 1..Len(s) : id = s[i].name}
    IN  IF m = {} THEN 0 ELSE CHOOSE i \in m : \A j \in m : i <= j

\* for &mut (ref name, ref mut val) in scope.iter_mut().rev() { if *id == *name ..
\* the position of the innermost binding named id, 0 when there is none.
FindBinding(s, id) ==
    LET m == {i \in 1..Len(s) : NameMatches(id, s[i].name)}
    IN  IF m = {} THEN 0 ELSE CHOOSE i \in m : \A j \in m : j <= i

\* faulty variant: one binding is popped, not all those of the Block
BlockRestorePopOne(s, prev_len) ==
    IF Len(s) > prev_len THEN SubSeq(s, 1, Len(s) - 1) ELSE s

\* while scope.len() > prev_len { scope.pop(); }
BlockRestore(s, prev_len) ==
    IF Len(s) > prev_len THEN SubSeq(s, 1, prev_len) ELSE s

\* faulty variant: a binding of the same name is overwritten, not shadowed
PushOverwrite(s, n, v) ==
    IF FindBinding(s, n) # 0 THEN [s EXCEPT ![FindBinding(s, n)].val = v]
    ELSE Append(s, Binding(n, v))

\* scope.push((name.clone(), i))
Push(s, n, v) == Append(s, Binding(n, v))

\* arr[*i as usize] is within the array (a negative i64 becomes a huge usize)
InRange(arr, i) == i >= 0 /\ i < Len(arr)

\* ------------------------------------------------------------------ call_fn

\* The methods of Engine call one another through self: Self(q) is the call of
\* the method q.fn on the arguments q.p, and self_m(..) is that call written out.
RECURSIVE Self(_)
self_call_fn(E, name, a) ==
    Self([fn |-> "call_fn", p |-> <<E, name, a>>])
self_candidates(E, vf, i, a) ==
    Self([fn |-> "candidates", p |-> <<E, vf, i, a>>])
self_clone_args(E, a, i, ok, vals) ==
    Self([fn |-> "clone_args", p |-> <<E, a, i, ok, vals>>])
self_eval_expr(E, s, x) ==
    Self([fn |-> "eval_expr", p |-> <<E, s, x>>])
self_eval_args(E, s, as, i, vals) ==
    Self([fn |-> "eval_args", p |-> <<E, s, as, i, vals>>])
self_eval_stmt(E, s, st) ==
    Self([fn |-> "eval_stmt", p |-> <<E, s, st>>])
self_eval_block(E, s, b, i, last_result) ==
    Self([fn |-> "eval_block", p |-> <<E, s, b, i, last_result>>])
self_eval_while(E, s, guard, body, n) ==
    Self([fn |-> "eval_while", p |-> <<E, s, guard, body, n>>])
self_eval_loop(E, s, body, n) ==
    Self([fn |-> "eval_loop", p |-> <<E, s, body, n>>])
self_get_dot_val_helper(E, s, this, rhs) ==
    Self([fn |-> "get_dot_val_helper", p |-> <<E, s, this, rhs>>])
self_set_dot_val_helper(E, this, rhs, source_val) ==
    Self([fn |-> "set_dot_val_helper", p |-> <<E, this, rhs, source_val>>])

\* faulty variant: the candidates are tried from the last registered
RECURSIVE CandidateOrderReversed(_)
CandidateOrderReversed(vf) ==
    IF vf = <<>> THEN <<>> ELSE Append(CandidateOrderReversed(Tail(vf)), Head(vf))

\* for arr_f in vf: the order in which the candidates are tried
CandidateOrder(vf) == vf

\* faulty variant: an exhausted candidate list is reported as a missing function
NoCandidateNotFound == ErrorFunctionNotFound

\* Err(EvalAltResult::ErrorFunctionArgMismatch) after the loop over vf
NoCandidate == ErrorFunctionArgMismatch

\* faulty variant: the Return signal of the body is passed on as it is
NoCatchReturn(r) == r

\* match self.eval_stmt(&mut new_scope, &*f.body) {
\*     Err(EvalAltResult::Return(x)) => return Ok(x), x => return x }
CatchReturn(r) == IF r.e = "Return" THEN Ok(r.v) ELSE r

\* faulty variant: the parameters are bound to the arguments in reverse
NewScopeReversed(params, vals) ==
    [i \in 1..Len(params) |-> Binding(params[i], vals[Len(params) + 1 - i])]

\* new_scope.push((f.params[0].clone(), r1)); new_scope.push((f.params[1]...
NewScope(params, vals) == [i \in 1..Len(params) |-> Binding(params[i], vals[i])]

\* if f.params.len() != k { return Err(ErrorFunctionArgMismatch) }
ArityMismatch(f, a) == Len(f.params) # Len(a)

\* result1 = self.call_fn("clone", Some(a1), ..); result2 = ...: every
\* argument is cloned through the registry, whether or not an earlier clone
\* failed.  ok: all succeeded; vals: the clones; a: the boxes afterwards.
clone_args(E, a, i, ok, vals) ==
    IF i > Len(a) THEN [ok |-> ok, vals |-> vals, a |-> a]
    ELSE LET c == self_call_fn(E, "clone", <<a[i]>>)
         IN  self_clone_args(E, [a EXCEPT ![i] = c.a[1]], i + 1, ok /\ IsOk(c.r),
                        IF IsOk(c.r) THEN Append(vals, c.r.v) ELSE vals)

\* The loop of one arm of call_fn over the candidates vf from position i on;
\* the arms for 0..6 arguments differ in the number of arguments only.
candidates(E, vf, i, a) ==
    IF i > Len(vf) THEN [r |-> NoCandidate, a |-> a]
    ELSE LET c == vf[i] IN
      IF c.kind = "ExternalFn"
      THEN IF c.arity = Len(a)
           THEN LET x == Native(c.f, a)
                IN  IF IsOk(x.r) THEN x ELSE self_candidates(E, vf, i + 1, x.a)
           ELSE self_candidates(E, vf, i + 1, a)
      ELSE IF ArityMismatch(c.def, a)
           THEN [r |-> ErrorFunctionArgMismatch, a |-> a]
           ELSE LET cl == self_clone_args(E, a, 1, TRUE, <<>>)
                IN  IF ~cl.ok THEN [r |-> ErrorFunctionArgMismatch, a |-> cl.a]
                    ELSE [r |-> CatchReturn(self_eval_stmt(E, NewScope(c.def.params, cl.vals),
                                                      c.def.body).r),
                          a |-> cl.a]

\* Engine::call_fn(name, arg1..arg6): the result and the argument boxes
\* (passed as &mut) afterwards.
call_fn(E, name, a) ==
    IF name \notin DOMAIN E THEN [r |-> ErrorFunctionNotFound, a |-> a]
    ELSE self_candidates(E, CandidateOrder(E[name]), 1, a)
\* ------------------------------------------------------------------ expressions
\* let mut arg1 = self.eval_expr(scope, &args[0])?; let mut arg2 = ...:
\* the arguments from position i on, left to right, stopping at the first
\* error.
eval_args(E, s, as, i, vals) ==
    IF i > Len(as) THEN [s |-> s, r |-> Ok(UnitV), vals |-> vals]
    ELSE LET x == self_eval_expr(E, s, as[i])
         IN  IF ~IsOk(x.r) THEN [s |-> x.s, r |-> x.r, vals |-> vals]
             ELSE self_eval_args(E, x.s, as, i + 1, Append(vals, x.r.v))

\* faulty variant: the element before the indexed one is read
CloneElementOffByOne(E, s, b, i) ==
    IF ~InRange(s[b].val.a, i) \/ i = 0 THEN [s |-> s, r |-> Err("Panic")]
    ELSE LET c == self_call_fn(E, "clone", <<s[b].val.a[i]>>)
         IN  [s |-> [s EXCEPT ![b].val.a[i] = c.a[1]], r |-> c.r]

\* self.call_fn("clone", Some(&mut arr_typed[*i as usize]), ..) on the array
\* held by binding b of s: the result, and s with the element box as the
\* clone candidate left it.
CloneElement(E, s, b, i) ==
    IF ~InRange(s[b].val.a, i) THEN [s |-> s, r |-> Err("Panic")]
    ELSE LET c == self_call_fn(E, "clone", <<s[b].val.a[i + 1]>>)
         IN  [s |-> [s EXCEPT ![b].val.a[i + 1] = c.a[1]], r |-> c.r]

\* faulty variant: one more argument is let through
MethodArgsMaxHigh == 5 + 1

MethodArgsMax == 5
CallArgsMax == 6

\* Engine::get_dot_val_helper(scope, this_ptr, dot_rhs): the scope, the
\* result and the box behind this_ptr afterwards.
get_dot_val_helper(E, s, this, rhs) ==
    CASE rhs.k = "FnCall" ->
           IF Len(rhs.args) > MethodArgsMax
           THEN [s |-> s, r |-> Err("ErrorFunctionCallNotSupported"), this |-> this]
           ELSE LET av == self_eval_args(E, s, rhs.args, 1, <<>>)
                IN  IF ~IsOk(av.r) THEN [s |-> av.s, r |-> av.r, this |-> this]
                    ELSE LET c == self_call_fn(E, rhs.n, <<this>> \o av.vals)
                         IN  [s |-> av.s, r |-> c.r, this |-> c.a[1]]
      [] rhs.k = "Identifier" ->
           LET c == self_call_fn(E, "get$" \o rhs.n, <<this>>)
           IN  [s |-> s, r |-> c.r, this |-> c.a[1]]
      [] rhs.k = "Index" ->
           LET ix == self_eval_expr(E, s, rhs.idx)
           IN  IF ~IsOk(ix.r) THEN [s |-> ix.s, r |-> ix.r, this |-> this]
               ELSE LET c == self_call_fn(E, "get$" \o rhs.n, <<this>>)
                        r == IF ~IsOk(c.r) THEN Err("ErrorIndexMismatch")
                             ELSE IF ix.r.v.t # "i64" THEN Err("ErrorIndexMismatch")
                             ELSE IF c.r.v.t # "array" THEN Err("ErrorIndexMismatch")
                             ELSE IF ~InRange(c.r.v.a, ix.r.v.i) THEN Err("Panic")
                             ELSE self_call_fn(E, "clone", <<c.r.v.a[ix.r.v.i + 1]>>).r
                    IN  [s |-> ix.s, r |-> r, this |-> c.a[1]]
      [] rhs.k = "Dot" ->
           IF rhs.lhs.k # "Identifier"
           THEN [s |-> s, r |-> InternalErrorMalformedDotExpression, this |-> this]
           ELSE LET c == self_call_fn(E, "get$" \o rhs.lhs.n, <<this>>)
                IN  IF ~IsOk(c.r) THEN [s |-> s, r |-> c.r, this |-> c.a[1]]
                    ELSE LET h == self_get_dot_val_helper(E, s, c.r.v, rhs.rhs)
                         IN  [s |-> h.s, r |-> h.r, this |-> c.a[1]]
      [] OTHER -> [s |-> s, r |-> InternalErrorMalformedDotExpression, this |-> this]

\* faulty variant: the member fetched for a nested set is not stored back
set_dot_val_helper_no_set(E, this, rhs, source_val) ==
    CASE rhs.k = "Identifier" ->
           LET c == self_call_fn(E, "set$" \o rhs.n, <<this, source_val>>)
           IN  [r |-> c.r, this |-> c.a[1]]
      [] rhs.k = "Dot" ->
           IF rhs.lhs.k # "Identifier"
           THEN [r |-> InternalErrorMalformedDotExpression, this |-> this]
           ELSE LET g == self_call_fn(E, "get$" \o rhs.lhs.n, <<this>>)
                IN  IF ~IsOk(g.r) THEN [r |-> g.r, this |-> g.a[1]]
                    ELSE [r |-> self_set_dot_val_helper(E, g.r.v, rhs.rhs, source_val).r,
                          this |-> g.a[1]]
      [] OTHER -> [r |-> InternalErrorMalformedDotExpression, this |-> this]

\* Engine::set_dot_val_helper(this_ptr, dot_rhs, source_val): the result and
\* the box behind this_ptr afterwards.
set_dot_val_helper(E, this, rhs, source_val) ==
    CASE rhs.k = "Identifier" ->
           LET c == self_call_fn(E, "set$" \o rhs.n, <<this, source_val>>)
           IN  [r |-> c.r, this |-> c.a[1]]
      [] rhs.k = "Dot" ->
           IF rhs.lhs.k # "Identifier"
           THEN [r |-> InternalErrorMalformedDotExpression, this |-> this]
           ELSE LET g == self_call_fn(E, "get$" \o rhs.lhs.n, <<this>>)
                IN  IF ~IsOk(g.r) THEN [r |-> g.r, this |-> g.a[1]]
                    ELSE LET h == self_set_dot_val_helper(E, g.r.v, rhs.rhs, source_val)
                         IN  IF ~IsOk(h.r) THEN [r |-> h.r, this |-> g.a[1]]
                             ELSE LET w == self_call_fn(E, "set$" \o rhs.lhs.n, <<g.a[1], h.this>>)
                                  IN  [r |-> w.r, this |-> w.a[1]]
      [] OTHER -> [r |-> InternalErrorMalformedDotExpression, this |-> this]

\* faulty variant: the clone is dropped, the binding keeps its old value
WriteBackNone(s, id, t) == s

\* *val = t for the innermost binding named id (nothing when there is none)
WriteBack(s, id, t) ==
    LET b == FindBinding(s, id) IN IF b = 0 THEN s ELSE [s EXCEPT ![b].val = t]

\* for .. in scope.iter_mut().rev() { if *id == *name { if let Some(arr_typed)
\* = val.downcast_mut() { arr_typed[*idx as usize] = t; break; } } }: the
\* innermost binding named id that holds an array, 0 when there is none.
FindArrayBinding(s, id) ==
    LET m == {i \in 1..Len(s) : NameMatches(id, s[i].name) /\ s[i].val.t = "array"}
    IN  IF m = {} THEN 0 ELSE CHOOSE i \in m : \A j \in m : j <= i

\* The write-back of an Index root: the scope and the result afterwards.
WriteBackElement(s, id, i, t, r) ==
    LET b == FindArrayBinding(s, id)
    IN  IF b = 0 THEN [s |-> s, r |-> r]
        ELSE IF ~InRange(s[b].val.a, i) THEN [s |-> s, r |-> Err("Panic")]
        ELSE [s |-> [s EXCEPT ![b].val.a[i + 1] = t], r |-> r]

\* Engine::get_dot_val(scope, dot_lhs, dot_rhs)
get_dot_val(E, s, lhs, rhs) ==
    CASE lhs.k = "Identifier" ->
           LET b == FindBinding(s, lhs.n) IN
           IF b = 0 THEN [s |-> s, r |-> ErrorVariableNotFound(lhs.n)]
           ELSE LET c == self_call_fn(E, "clone", <<s[b].val>>)
                    s1 == [s EXCEPT ![b].val = c.a[1]]
                IN  IF ~IsOk(c.r) THEN [s |-> s1, r |-> c.r]
                    ELSE LET h == self_get_dot_val_helper(E, s1, c.r.v, rhs)
                         IN  [s |-> WriteBack(h.s, lhs.n, h.this), r |-> h.r]
      [] lhs.k = "Index" ->
           LET ix == self_eval_expr(E, s, lhs.idx) IN
           IF ~IsOk(ix.r) THEN ix
           ELSE IF ix.r.v.t # "i64" THEN [s |-> ix.s, r |-> Err("ErrorIndexMismatch")]
           ELSE LET b == FindBinding(ix.s, lhs.n) IN
             IF b = 0 THEN [s |-> ix.s, r |-> ErrorVariableNotFound(lhs.n)]
             ELSE IF ix.s[b].val.t # "array" THEN [s |-> ix.s, r |-> Err("ErrorIndexMismatch")]
             ELSE LET c == CloneElement(E, ix.s, b, ix.r.v.i)
                  IN  IF ~IsOk(c.r) THEN c
                      ELSE LET h == self_get_dot_val_helper(E, c.s, c.r.v, rhs)
                           IN  WriteBackElement(h.s, lhs.n, ix.r.v.i, h.this, h.r)
      [] OTHER -> [s |-> s, r |-> InternalErrorMalformedDotExpression]

\* Engine::set_dot_val(scope, dot_lhs, dot_rhs, source_val)
set_dot_val(E, s, lhs, rhs, source_val) ==
    CASE lhs.k = "Identifier" ->
           LET b == FindBinding(s, lhs.n) IN
           IF b = 0 THEN [s |-> s, r |-> ErrorAssignmentToUnknownLHS]
           ELSE LET c == self_call_fn(E, "clone", <<s[b].val>>)
                    s1 == [s EXCEPT ![b].val = c.a[1]]
                IN  IF ~IsOk(c.r) THEN [s |-> s1, r |-> ErrorVariableNotFound(lhs.n)]
                    ELSE LET h == self_set_dot_val_helper(E, c.r.v, rhs, source_val)
                         IN  [s |-> WriteBack(s1, lhs.n, h.this), r |-> h.r]
      [] lhs.k = "Index" ->
           LET ix == self_eval_expr(E, s, lhs.idx) IN
           IF ~IsOk(ix.r) THEN ix
           ELSE IF ix.r.v.t # "i64" THEN [s |-> ix.s, r |-> Err("ErrorIndexMismatch")]
           ELSE LET b == FindBinding(ix.s, lhs.n) IN
             IF b = 0 THEN [s |-> ix.s, r |-> ErrorVariableNotFound(lhs.n)]
             ELSE IF ix.s[b].val.t # "array" THEN [s |-> ix.s, r |-> Err("ErrorIndexMismatch")]
             ELSE LET c == CloneElement(E, ix.s, b, ix.r.v.i)
                  IN  IF ~IsOk(c.r) THEN c
                      ELSE LET h == self_set_dot_val_helper(E, c.r.v, rhs, source_val)
                           IN  WriteBackElement(c.s, lhs.n, ix.r.v.i, h.this, h.r)
      [] OTHER -> [s |-> s, r |-> InternalErrorMalformedDotExpression]

\* Engine::eval_expr(scope, expr): the scope afterwards and the result.
eval_expr(E, s, x) ==
    CASE x.k = "IntConst" -> [s |-> s, r |-> Ok(IntV(x.i))]
      [] x.k = "True" -> [s |-> s, r |-> Ok(BoolV(TRUE))]
      [] x.k = "False" -> [s |-> s, r |-> Ok(BoolV(FALSE))]
      [] x.k = "Identifier" ->
           LET b == FindBinding(s, x.n) IN
           IF b = 0 THEN [s |-> s, r |-> ErrorVariableNotFound(x.n)]
           ELSE LET c == self_call_fn(E, "clone", <<s[b].val>>)
                IN  [s |-> [s EXCEPT ![b].val = c.a[1]], r |-> c.r]
      [] x.k = "Index" ->
           LET ix == self_eval_expr(E, s, x.idx) IN
           IF ~IsOk(ix.r) THEN ix
           ELSE LET b == FindBinding(ix.s, x.n) IN
             IF b = 0 THEN [s |-> ix.s, r |-> ErrorVariableNotFound(x.n)]
             ELSE IF ix.r.v.t # "i64" THEN [s |-> ix.s, r |-> Err("ErrorIndexMismatch")]
             ELSE IF ix.s[b].val.t # "array" THEN [s |-> ix.s, r |-> Err("ErrorIndexMismatch")]
             ELSE CloneElement(E, ix.s, b, ix.r.v.i)
      [] x.k = "Assignment" ->
           LET rv == self_eval_expr(E, s, x.rhs) IN
           IF ~IsOk(rv.r) THEN rv
           ELSE CASE x.lhs.k = "Identifier" ->
                       LET b == FindBinding(rv.s, x.lhs.n) IN
                       IF b = 0 THEN [s |-> rv.s, r |-> ErrorVariableNotFound(x.lhs.n)]
                       ELSE [s |-> [rv.s EXCEPT ![b].val = rv.r.v], r |-> Ok(UnitV)]
                  [] x.lhs.k = "Index" ->
                       LET ix == self_eval_expr(E, rv.s, x.lhs.idx) IN
                       IF ~IsOk(ix.r) THEN ix
                       ELSE LET b == FindBinding(ix.s, x.lhs.n) IN
                         IF b = 0 THEN [s |-> ix.s, r |-> ErrorVariableNotFound(x.lhs.n)]
                         ELSE IF ix.r.v.t # "i64"
                              THEN [s |-> ix.s, r |-> Err("ErrorIndexMismatch")]
                         ELSE IF ix.s[b].val.t # "array"
                              THEN [s |-> ix.s, r |-> Err("ErrorIndexMismatch")]
                         ELSE IF ~InRange(ix.s[b].val.a, ix.r.v.i)
                              THEN [s |-> ix.s, r |-> Err("Panic")]
                         ELSE [s |-> [ix.s EXCEPT ![b].val.a[ix.r.v.i + 1] = rv.r.v],
                               r |-> Ok(UnitV)]
                  [] x.lhs.k = "Dot" ->
                       set_dot_val(E, rv.s, x.lhs.lhs, x.lhs.rhs, rv.r.v)
                  [] OTHER -> [s |-> rv.s, r |-> ErrorAssignmentToUnknownLHS]
      [] x.k = "Dot" -> get_dot_val(E, s, x.lhs, x.rhs)
      [] x.k = "Array" ->
           LET av == self_eval_args(E, s, x.items, 1, <<>>)
           IN  IF ~IsOk(av.r) THEN [s |-> av.s, r |-> av.r]
               ELSE [s |-> av.s, r |-> Ok(ArrV(av.vals))]
      [] x.k = "FnCall" ->
           IF Len(x.args) > CallArgsMax
           THEN [s |-> s, r |-> Err("ErrorFunctionCallNotSupported")]
           ELSE LET av == self_eval_args(E, s, x.args, 1, <<>>)
                IN  IF ~IsOk(av.r) THEN [s |-> av.s, r |-> av.r]
                    ELSE [s |-> av.s, r |-> self_call_fn(E, x.n, av.vals).r]
\* ------------------------------------------------------------------ statements
\* faulty variant: the loop passes the LoopBreak of its body on
NoCatchLoopBreak(r) == r

\* Err(EvalAltResult::LoopBreak) => { return Ok(Box::new(())); } in While and Loop
CatchLoopBreak(r) == IF r.e = "LoopBreak" THEN Ok(UnitV) ELSE r

\* guard_result.downcast::<bool>()
IsBool(v) == v.t = "bool"

\* for s in b.iter() { last_result = self.eval_stmt(scope, s);
\*                     if let Err(x) = last_result { .. break; } }
eval_block(E, s, b, i, last_result) ==
    IF i > Len(b) THEN [s |-> s, r |-> last_result]
    ELSE LET x == self_eval_stmt(E, s, b[i])
         IN  IF ~IsOk(x.r) THEN x ELSE self_eval_block(E, x.s, b, i + 1, x.r)

\* faulty variant: the body runs before the guard is looked at
eval_while_body_first(E, s, guard, body, n) ==
    IF n = 0 THEN [s |-> s, r |-> Err("Diverge")]
    ELSE LET x == self_eval_stmt(E, s, body) IN
      IF ~IsOk(x.r) THEN [s |-> x.s, r |-> CatchLoopBreak(x.r)]
      ELSE LET g == self_eval_expr(E, x.s, guard) IN
        IF ~IsOk(g.r) THEN g
        ELSE IF ~IsBool(g.r.v) THEN [s |-> g.s, r |-> Err("ErrorIfGuardMismatch")]
        ELSE IF ~g.r.v.b THEN [s |-> g.s, r |-> Ok(UnitV)]
        ELSE self_eval_while(E, g.s, guard, body, n - 1)

\* Stmt::While: n is the number of iterations left before the loop is cut off
eval_while(E, s, guard, body, n) ==
    LET g == self_eval_expr(E, s, guard) IN
    IF ~IsOk(g.r) THEN g
    ELSE IF ~IsBool(g.r.v) THEN [s |-> g.s, r |-> Err("ErrorIfGuardMismatch")]
    ELSE IF ~g.r.v.b THEN [s |-> g.s, r |-> Ok(UnitV)]
    ELSE IF n = 0 THEN [s |-> g.s, r |-> Err("Diverge")]
    ELSE LET x == self_eval_stmt(E, g.s, body)
         IN  IF ~IsOk(x.r) THEN [s |-> x.s, r |-> CatchLoopBreak(x.r)]
             ELSE self_eval_while(E, x.s, guard, body, n - 1)

\* Stmt::Loop
eval_loop(E, s, body, n) ==
    IF n = 0 THEN [s |-> s, r |-> Err("Diverge")]
    ELSE LET x == self_eval_stmt(E, s, body)
         IN  IF ~IsOk(x.r) THEN [s |-> x.s, r |-> CatchLoopBreak(x.r)]
             ELSE self_eval_loop(E, x.s, body, n - 1)

\* Engine::eval_stmt(scope, stmt): the scope afterwards and the result.
eval_stmt(E, s, st) ==
    CASE st.k = "Expr" -> self_eval_expr(E, s, st.e)
      [] st.k = "Block" ->
           LET x == self_eval_block(E, s, st.body, 1, Ok(UnitV))
           IN  [s |-> BlockRestore(x.s, Len(s)), r |-> x.r]
      [] st.k = "If" ->
           LET g == self_eval_expr(E, s, st.guard) IN
           IF ~IsOk(g.r) THEN g
           ELSE IF ~IsBool(g.r.v) THEN [s |-> g.s, r |-> Err("ErrorIfGuardMismatch")]
           ELSE IF g.r.v.b THEN self_eval_stmt(E, g.s, st.body)
           ELSE [s |-> g.s, r |-> Ok(UnitV)]
      [] st.k = "IfElse" ->
           LET g == self_eval_expr(E, s, st.guard) IN
           IF ~IsOk(g.r) THEN g
           ELSE IF ~IsBool(g.r.v) THEN [s |-> g.s, r |-> Err("ErrorIfGuardMismatch")]
           ELSE IF g.r.v.b THEN self_eval_stmt(E, g.s, st.body)
           ELSE self_eval_stmt(E, g.s, st.else_body)
      [] st.k = "While" -> self_eval_while(E, s, st.guard, st.body, MaxIter)
      [] st.k = "Loop" -> self_eval_loop(E, s, st.body, MaxIter)
      [] st.k = "Break" -> [s |-> s, r |-> LoopBreak]
      [] st.k = "Return" -> [s |-> s, r |-> Return(UnitV)]
      [] st.k = "ReturnWithVal" ->
           LET x == self_eval_expr(E, s, st.e)
           IN  IF ~IsOk(x.r) THEN x ELSE [s |-> x.s, r |-> Return(x.r.v)]
      [] st.k = "Var" ->
           IF st.init = <<>> THEN [s |-> Push(s, st.n, UnitV), r |-> Ok(UnitV)]
           ELSE LET x == self_eval_expr(E, s, st.init[1])
                IN  IF ~IsOk(x.r) THEN x
                    ELSE [s |-> Push(x.s, st.n, x.r.v), r |-> Ok(UnitV)]

\* ------------------------------------------------------------------ entry points
\* self.m(..): the method named by q.fn, applied to q.p
Self(q) ==
    CASE q.fn = "call_fn" -> call_fn(q.p[1], q.p[2], q.p[3])
      [] q.fn = "candidates" -> candidates(q.p[1], q.p[2], q.p[3], q.p[4])
      [] q.fn = "clone_args" -> clone_args(q.p[1], q.p[2], q.p[3], q.p[4], q.p[5])
      [] q.fn = "eval_expr" -> eval_expr(q.p[1], q.p[2], q.p[3])
      [] q.fn = "eval_args" -> eval_args(q.p[1], q.p[2], q.p[3], q.p[4], q.p[5])
      [] q.fn = "eval_stmt" -> eval_stmt(q.p[1], q.p[2], q.p[3])
      [] q.fn = "eval_block" -> eval_block(q.p[1], q.p[2], q.p[3], q.p[4], q.p[5])
      [] q.fn = "eval_while" -> eval_while(q.p[1], q.p[2], q.p[3], q.p[4], q.p[5])
      [] q.fn = "eval_loop" -> eval_loop(q.p[1], q.p[2], q.p[3], q.p[4])
      [] q.fn = "get_dot_val_helper" -> get_dot_val_helper(q.p[1], q.p[2], q.p[3], q.p[4])
      [] q.fn = "set_dot_val_helper" -> set_dot_val_helper(q.p[1], q.p[2], q.p[3], q.p[4])

\* faulty variant: the limit is off by one
FnArityMaxLow == 6 - 1

FnArityMax == 6

RECURSIVE install_fns(_, _, _), eval_stmts(_, _, _, _, _)

\* faulty variant: the loop passes over the rejected function and goes on
install_fns_skip(E, fs, i) ==
    IF i > Len(fs) THEN [E |-> E, done |-> TRUE]
    ELSE IF Len(fs[i].params) > FnArityMax
         THEN [E |-> install_fns(E, fs, i + 1).E, done |-> FALSE]
    ELSE install_fns(Install(E, fs[i].name, InternalFn(fs[i])), fs, i + 1)

\* for f in fns { if f.params.len() > 6 { return ..; } ..push(InternalFn(f)) }:
\* the registry afterwards, and whether the loop ran to its end.
install_fns(E, fs, i) ==
    IF i > Len(fs) THEN [E |-> E, done |-> TRUE]
    ELSE IF Len(fs[i].params) > FnArityMax THEN [E |-> E, done |-> FALSE]
    ELSE install_fns(Install(E, fs[i].name, InternalFn(fs[i])), fs, i + 1)

\* for o in os { x = match self.eval_stmt(scope, o) { Ok(v) => Ok(v),
\*                                                    Err(e) => return Err(e) } }
eval_stmts(E, s, os, i, x) ==
    IF i > Len(os) THEN [s |-> s, r |-> x]
    ELSE LET y == self_eval_stmt(E, s, os[i])
         IN  IF ~IsOk(y.r) THEN y ELSE eval_stmts(E, y.s, os, i + 1, y.r)

\* v.downcast::<T>()
Downcast(r, T) ==
    IF ~IsOk(r) THEN r
    ELSE IF r.v.t = T THEN r ELSE Err("ErrorMismatchOutputType")

\* faulty variant: the statements are evaluated first, the functions installed after
eval_with_scope_stmts_first(E, s, os, fs, T) ==
    LET x == eval_stmts(E, s, os, 1, Ok(UnitV))
        inst == install_fns(E, fs, 1)
    IN  IF ~inst.done THEN [E |-> inst.E, s |-> s, r |-> Err("ErrorFunctionArityNotSupported")]
        ELSE [E |-> inst.E, s |-> x.s, r |-> Downcast(x.r, T)]

\* faulty variant: a failed call gives back the scope and the registry it was given
eval_with_scope_rollback(E, s, os, fs, T) ==
    LET inst == install_fns(E, fs, 1) IN
    IF ~inst.done THEN [E |-> E, s |-> s, r |-> Err("ErrorFunctionArityNotSupported")]
    ELSE LET x == eval_stmts(inst.E, s, os, 1, Ok(UnitV))
         IN  IF ~IsOk(x.r) THEN [E |-> E, s |-> s, r |-> x.r]
             ELSE [E |-> inst.E, s |-> x.s, r |-> Downcast(x.r, T)]

\* Engine::eval_with_scope::<T>(scope, input), input parsed to (os, fns)
eval_with_scope(E, s, os, fs, T) ==
    LET inst == install_fns(E, fs, 1) IN
    IF ~inst.done THEN [E |-> inst.E, s |-> s, r |-> Err("ErrorFunctionArityNotSupported")]
    ELSE LET x == eval_stmts(inst.E, s, os, 1, Ok(UnitV))
         IN  [E |-> inst.E, s |-> x.s, r |-> Downcast(x.r, T)]

\* faulty variant: eval runs on the scope of the caller's earlier calls
eval_on_scope(E, os, fs, T) == eval_with_scope(E, scope, os, fs, T)

\* Engine::eval::<T>(input): a fresh scope for the call
eval(E, os, fs, T) == eval_with_scope(E, <<>>, os, fs, T)

\* faulty variant: consume rejects a long parameter list as eval does
consume_with_scope_strict(E, s, os, fs) ==
    LET inst == install_fns(E, fs, 1) IN
    IF ~inst.done THEN [E |-> inst.E, s |-> s, r |-> Err("ErrorFunctionArityNotSupported")]
    ELSE LET x == eval_stmts(inst.E, s, os, 1, Ok(UnitV))
         IN  [E |-> inst.E, s |-> x.s, r |-> IF IsOk(x.r) THEN Ok(UnitV) ELSE x.r]

\* Engine::consume_with_scope(scope, input), input parsed to (os, fns)
consume_with_scope(E, s, os, fs) ==
    LET inst == install_fns(E, fs, 1) IN
    IF ~inst.done THEN [E |-> inst.E, s |-> s, r |-> Ok(UnitV)]
    ELSE LET x == eval_stmts(inst.E, s, os, 1, Ok(UnitV))
         IN  [E |-> inst.E, s |-> x.s, r |-> IF IsOk(x.r) THEN Ok(UnitV) ELSE x.r]
\* Engine::consume(input): a fresh scope for the call
consume(E, os, fs) == consume_with_scope(E, <<>>, os, fs)

\* ------------------------------------------------------------------ scripts
\* The parse trees the entry points are run on; a script is (os, fns).
Id(n) == Identifier(n)
Plus(x, y) == FnCall("+", <<x, y>>)
Less(x, y) == FnCall("<", <<x, y>>)
Equal(x, y) == FnCall("==", <<x, y>>)
Set(n, e) == SExpr(Assignment(Id(n), e))
Let(n, e) == Var(n, <<e>>)
Script(os) == [os |-> os, fns |-> <<>>]

\* fn h(a, b) { a = 3; let n = 0; b }
Fn_h == FnDef("h", <<"a", "b">>, Block(<<Set("a", IntConst(3)), Let("n", IntConst(0)),
                                       SExpr(Id("b"))>>))
\* fn g() { n }
Fn_g == FnDef("g", <<>>, Block(<<SExpr(Id("n"))>>))
\* fn deep(a) { while true { if a == a { { return a + 1; } } a = 0; } 3 }
Fn_deep == FnDef("deep", <<"a">>,
                 Block(<<While(True, Block(<<If(Equal(Id("a"), Id("a")),
                                                Block(<<Block(<<ReturnWithVal(Plus(Id("a"), IntConst(1)))>>)>>)),
                                             Set("a", IntConst(0))>>)),
                         SExpr(IntConst(3))>>))
\* fn tail(a) { let c = 2; c }
Fn_tail == FnDef("tail", <<"a">>, Block(<<Let("c", IntConst(2)), SExpr(Id("c"))>>))
\* fn ret0() { return; 3 }
Fn_ret0 == FnDef("ret0", <<>>, Block(<<ReturnStmt, SExpr(IntConst(3))>>))
\* fn lost(a) { zz(a) }
Fn_lost == FnDef("lost", <<"a">>, Block(<<SExpr(FnCall("zz", <<Id("a")>>))>>))
\* fn brk() { break; 3 }
Fn_brk == FnDef("brk", <<>>, Block(<<Break, SExpr(IntConst(3))>>))
\* fn later(a) { a + 1 }
Fn_later == FnDef("later", <<"a">>, Block(<<SExpr(Plus(Id("a"), IntConst(1)))>>))
\* fn next(a) { a + 1 }
Fn_next1 == FnDef("next", <<"a">>, Block(<<SExpr(Plus(Id("a"), IntConst(1)))>>))
\* fn next(a) { a + 2 }
Fn_next2 == FnDef("next", <<"a">>, Block(<<SExpr(Plus(Id("a"), IntConst(2)))>>))
\* fn six(a, b, c, d, e, f) { f }
Fn_six == FnDef("six", <<"a", "b", "c", "d", "e", "f">>, Block(<<SExpr(Id("f"))>>))
\* fn seven(a, b, c, d, e, f, g) { g }
Fn_seven == FnDef("seven", <<"a", "b", "c", "d", "e", "f", "g">>, Block(<<SExpr(Id("g"))>>))
\* fn f(a) { 3 }
Fn_f1 == FnDef("f", <<"a">>, Block(<<SExpr(IntConst(3))>>))

\* fn f(a, b) { b }
Fn_f2 == FnDef("f", <<"a", "b">>, Block(<<SExpr(Id("b"))>>))

\* while i < 2 { i = i + 1; loop { break; c = c + 2; } c = c + 1; }
BreakInner ==
    While(Less(Id("i"), IntConst(2)),
          Block(<<Set("i", Plus(Id("i"), IntConst(1))),
                  Loop(Block(<<Break, Set("c", Plus(Id("c"), IntConst(2)))>>)),
                  Set("c", Plus(Id("c"), IntConst(1)))>>))
\* loop { if i == 2 { break; } i = i + 1; while true { break; c = c + 2; } c = c + 1; }
BreakOuter ==
    Loop(Block(<<If(Equal(Id("i"), IntConst(2)), Block(<<Break>>)),
                 Set("i", Plus(Id("i"), IntConst(1))),
                 While(True, Block(<<Break, Set("c", Plus(Id("c"), IntConst(2)))>>)),
                 Set("c", Plus(Id("c"), IntConst(1)))>>))

Prog(id) ==
    CASE id = "let_a_int" -> Script(<<Let("a", IntConst(1))>>)
      [] id = "let_a_pt" -> Script(<<Let("a", FnCall("new_point", <<>>))>>)
      [] id = "let_a_arr" -> Script(<<Let("a", Array(<<IntConst(1), IntConst(2)>>))>>)
      [] id = "let_n" -> Script(<<Let("n", IntConst(2))>>)
      \* { let n = 3; let b = n; }
      [] id = "blk_norm" -> Script(<<Block(<<Let("n", IntConst(3)), Let("b", Id("n"))>>)>>)
      \* { let n = 3; zz; let b = 1; }
      [] id = "blk_err" ->
           Script(<<Block(<<Let("n", IntConst(3)), SExpr(Id("zz")), Let("b", IntConst(1))>>)>>)
      \* if true { let n = 3; { let b = 1; break; } }
      [] id = "if_blk_break" ->
           Script(<<If(True, Block(<<Let("n", IntConst(3)),
                                     Block(<<Let("b", IntConst(1)), Break>>)>>))>>)
      \* while true { let n = 3; { let b = n; return b; } }
      [] id = "while_blk_ret" ->
           Script(<<While(True, Block(<<Let("n", IntConst(3)),
                                        Block(<<Let("b", Id("n")), ReturnWithVal(Id("b"))>>)>>))>>)
      \* let n = 1; n = n + 1;
      [] id = "let_n_inc" ->
           Script(<<Let("n", IntConst(1)), Set("n", Plus(Id("n"), IntConst(1)))>>)
      \* n + 1
      [] id = "n_plus_1" -> Script(<<SExpr(Plus(Id("n"), IntConst(1)))>>)
      [] id = "read_n" -> Script(<<SExpr(Id("n"))>>)
      [] id = "read_a" -> Script(<<SExpr(Id("a"))>>)
      \* { let n = 0; n = 3; }
      [] id = "shadow" -> Script(<<Block(<<Let("n", IntConst(0)), Set("n", IntConst(3))>>)>>)
      \* { n = 3; let n = 0; }
      [] id = "assign_shadow" ->
           Script(<<Block(<<Set("n", IntConst(3)), Let("n", IntConst(0))>>)>>)
      \* let b = a; b = 2;
      [] id = "copy_assign" -> Script(<<Let("b", Id("a")), Set("b", IntConst(2))>>)
      \* let b = a; b.x = 2;
      [] id = "copy_setx" ->
           Script(<<Let("b", Id("a")), SExpr(Assignment(Dot(Id("b"), Id("x")), IntConst(2)))>>)
      \* let b = a; b.update();
      [] id = "copy_update" ->
           Script(<<Let("b", Id("a")), SExpr(Dot(Id("b"), FnCall("update", <<>>)))>>)
      \* let b = a; b[0] = 2;
      [] id = "copy_index" ->
           Script(<<Let("b", Id("a")), SExpr(Assignment(Index("b", IntConst(0)), IntConst(2)))>>)
      [] id = "call_h" -> Script(<<SExpr(FnCall("h", <<Id("n"), IntConst(1)>>))>>)
      [] id = "call_g" -> Script(<<SExpr(FnCall("g", <<>>))>>)
      \* { let i = 0; let c = 0; while ..; n = c; }
      [] id = "brk_inner" ->
           Script(<<Block(<<Let("i", IntConst(0)), Let("c", IntConst(0)), BreakInner,
                            Set("n", Id("c"))>>)>>)
      \* { let i = 0; let c = 0; loop ..; n = c; }
      [] id = "brk_outer" ->
           Script(<<Block(<<Let("i", IntConst(0)), Let("c", IntConst(0)), BreakOuter,
                            Set("n", Id("c"))>>)>>)
      \* return 1; let b = 1;
      [] id = "ret_top" -> Script(<<ReturnWithVal(IntConst(1)), Let("b", IntConst(1))>>)
      \* later(1)  fn later(a) { a + 1 }
      [] id = "own_fn" ->
           [os |-> <<SExpr(FnCall("later", <<IntConst(1)>>))>>, fns |-> <<Fn_later>>]
      \* fn six(..) { f }  six(0, 0, 0, 0, 0, 1)
      [] id = "six" ->
           [os |-> <<SExpr(FnCall("six", <<IntConst(0), IntConst(0), IntConst(0),
                                            IntConst(0), IntConst(0), IntConst(1)>>))>>,
            fns |-> <<Fn_six>>]
      \* fn six(..) { f }  fn seven(..) { g }  let b = 1;
      [] id = "seven" -> [os |-> <<Let("b", IntConst(1))>>, fns |-> <<Fn_six, Fn_seven>>]
      [] id = "let_o" -> Script(<<Let("o", FnCall("new_outer", <<>>))>>)
      \* o.y.x = 2;
      [] id = "set_oyx" ->
           Script(<<SExpr(Assignment(Dot(Id("o"), Dot(Id("y"), Id("x"))), IntConst(2)))>>)
      \* o.y.x
      [] id = "read_oyx" -> Script(<<SExpr(Dot(Id("o"), Dot(Id("y"), Id("x"))))>>)
      \* o.y
      [] id = "read_oy" -> Script(<<SExpr(Dot(Id("o"), Id("y")))>>)
      \* let a = [new_point(), new_point()];
      [] id = "let_a_pts" ->
           Script(<<Let("a", Array(<<FnCall("new_point", <<>>), FnCall("new_point", <<>>)>>))>>)
      \* a.update();
      [] id = "upd_a" -> Script(<<SExpr(Dot(Id("a"), FnCall("update", <<>>)))>>)
      \* a[1].update();
      [] id = "upd_a1" ->
           Script(<<SExpr(Dot(Index("a", IntConst(1)), FnCall("update", <<>>)))>>)
      \* a[1].x = 2;
      [] id = "set_a1x" ->
           Script(<<SExpr(Assignment(Dot(Index("a", IntConst(1)), Id("x")), IntConst(2)))>>)
      \* 1 = 2;
      [] id = "bad_lit" -> Script(<<SExpr(Assignment(IntConst(1), IntConst(2)))>>)
      \* new_point() = 2;
      [] id = "bad_call" ->
           Script(<<SExpr(Assignment(FnCall("new_point", <<>>), IntConst(2)))>>)
      \* [1] = 2;
      [] id = "bad_arr" -> Script(<<SExpr(Assignment(Array(<<IntConst(1)>>), IntConst(2)))>>)
      \* new_point().x = 2;
      [] id = "bad_root" ->
           Script(<<SExpr(Assignment(Dot(FnCall("new_point", <<>>), Id("x")), IntConst(2)))>>)
      \* a.update() = 2;
      [] id = "bad_member_call" ->
           Script(<<SExpr(Assignment(Dot(Id("a"), FnCall("update", <<>>)), IntConst(2)))>>)
      \* a.x[0] = 2;
      [] id = "bad_member_idx" ->
           Script(<<SExpr(Assignment(Dot(Id("a"), Index("x", IntConst(0))), IntConst(2)))>>)
      [] id = "let_n_true" -> Script(<<Let("n", True)>>)
      [] id = "let_n_false" -> Script(<<Let("n", False)>>)
      \* if n { a = 3; }
      [] id = "if_n" -> Script(<<If(Id("n"), Block(<<Set("a", IntConst(3))>>))>>)
      \* if n { a = 3; } else { n = 0; }
      [] id = "ifelse_n" ->
           Script(<<IfElse(Id("n"), Block(<<Set("a", IntConst(3))>>),
                           Block(<<Set("n", IntConst(0))>>))>>)
      \* while n { a = 3; n = false; }
      [] id = "while_n" ->
           Script(<<While(Id("n"), Block(<<Set("a", IntConst(3)), Set("n", False)>>))>>)
      \* { }
      [] id = "empty_blk" -> Script(<<Block(<<>>)>>)
      \* if false { n = 3; }
      [] id = "if_false" -> Script(<<If(False, Block(<<Set("n", IntConst(3))>>))>>)
      \* while false { n = 3; }
      [] id = "while_false" -> Script(<<While(False, Block(<<Set("n", IntConst(3))>>))>>)
      \* loop { break; n = 3; }
      [] id = "loop_break" -> Script(<<Loop(Block(<<Break, Set("n", IntConst(3))>>))>>)
      \* a.h(1)
      [] id = "meth_h" -> Script(<<SExpr(Dot(Id("a"), FnCall("h", <<IntConst(1)>>)))>>)
      \* a.six(0, 1, 2, 3, 1)
      [] id = "meth_six" ->
           Script(<<SExpr(Dot(Id("a"), FnCall("six", <<IntConst(0), IntConst(1), IntConst(2),
                                                        IntConst(3), IntConst(1)>>)))>>)
      \* a.six(n = 3, 0, 0, 0, 0, 1)
      [] id = "meth_over" ->
           Script(<<SExpr(Dot(Id("a"),
                              FnCall("six", <<Assignment(Id("n"), IntConst(3)), IntConst(0),
                                              IntConst(0), IntConst(0), IntConst(0),
                                              IntConst(1)>>)))>>)
      \* let n;
      [] id = "let_u" -> Script(<<Var("n", <<>>)>>)
      \* n = 3
      [] id = "set_n3" -> Script(<<Set("n", IntConst(3))>>)
      \* a[1] = 3
      [] id = "set_a1" -> Script(<<SExpr(Assignment(Index("a", IntConst(1)), IntConst(3)))>>)
      \* a[1] = [1]
      [] id = "set_a1_arr" ->
           Script(<<SExpr(Assignment(Index("a", IntConst(1)), Array(<<IntConst(1)>>)))>>)
      \* a[1]
      [] id = "read_a1" -> Script(<<SExpr(Index("a", IntConst(1)))>>)
      \* a[true] = 3
      [] id = "set_a_true" -> Script(<<SExpr(Assignment(Index("a", True), IntConst(3)))>>)
      \* a[true]
      [] id = "read_a_true" -> Script(<<SExpr(Index("a", True))>>)
      \* let n = n + 1;
      [] id = "let_n_n1" -> Script(<<Let("n", Plus(Id("n"), IntConst(1)))>>)
      \* a.x = 2
      [] id = "set_ax" -> Script(<<SExpr(Assignment(Dot(Id("a"), Id("x")), IntConst(2)))>>)
      \* a.x
      [] id = "read_ax" -> Script(<<SExpr(Dot(Id("a"), Id("x")))>>)
      \* next(1)  fn next(a) { a + 1 }
      [] id = "def_next1" ->
           [os |-> <<SExpr(FnCall("next", <<IntConst(1)>>))>>, fns |-> <<Fn_next1>>]
      \* next(1)  fn next(a) { a + 2 }
      [] id = "def_next2" ->
           [os |-> <<SExpr(FnCall("next", <<IntConst(1)>>))>>, fns |-> <<Fn_next2>>]
      \* next(1)  fn next(a) { a + 1 }  fn next(a) { a + 2 }
      [] id = "dup_next" ->
           [os |-> <<SExpr(FnCall("next", <<IntConst(1)>>))>>, fns |-> <<Fn_next1, Fn_next2>>]
      \* next(1)
      [] id = "call_next" -> Script(<<SExpr(FnCall("next", <<IntConst(1)>>))>>)
      \* fn six(..) { f }  fn seven(..) { g }  fn later(a) { a + 1 }  let b = 1;
      [] id = "seven_mid" ->
           [os |-> <<Let("b", IntConst(1))>>, fns |-> <<Fn_six, Fn_seven, Fn_later>>]
      \* fn later(a) { a + 1 }  let b = 1; n = 3; zz; let c = 1;
      [] id = "fail_mid" ->
           [os |-> <<Let("b", IntConst(1)), Set("n", IntConst(3)), SExpr(Id("zz")),
                     Let("c", IntConst(1))>>,
            fns |-> <<Fn_later>>]
      [] id = "lib_f1" -> [os |-> <<>>, fns |-> <<Fn_f1>>]
      [] id = "lib_f2" -> [os |-> <<>>, fns |-> <<Fn_f2>>]

\* the scripts run against the caller's scope
ScopeProgs ==
    {"let_a_int", "let_a_pt", "let_a_arr", "let_n", "blk_norm", "blk_err", "if_blk_break",
     "while_blk_ret", "read_n", "read_a", "shadow", "assign_shadow", "copy_assign",
     "copy_setx", "copy_update", "copy_index", "call_h", "call_g", "brk_inner",
     "brk_outer", "ret_top", "let_n_inc", "n_plus_1"}
\* the scripts that only define functions, run by consume
LibProgs == {"lib_f1", "lib_f2"}
\* the scripts eval_with_scope::<T> is asked the value of, and the types T
ValueProgs == {"read_n", "read_a", "call_h", "call_g", "ret_top", "let_n_inc", "n_plus_1"}
OutTypes == {"i64", "Point", "unit"}
\* the scripts run by eval and consume, which take no scope
FreshProgs == {"let_n_inc", "n_plus_1", "read_n"}

\* ------------------------------------------------------------------ state machine
ValBounded(v) ==
    CASE v.t = "i64" -> v.i \in 0..MaxInt
      [] v.t = "Point" -> v.x \in 0..MaxInt
      [] v.t = "Outer" -> v.y.x \in 0..MaxInt
      [] v.t = "array" ->
           \A i \in 1..Len(v.a) :
               \/ v.a[i].t = "i64" /\ v.a[i].i \in 0..MaxInt
               \/ v.a[i].t = "Point" /\ v.a[i].x \in 0..MaxInt
               \/ v.a[i] = ArrV(<<IntV(1)>>)
      [] OTHER -> TRUE

\* the states kept: a call that returns, and a scope and registry within the bounds
Kept(E, s, r, fs) ==
    /\ ~NoReturn(r)
    /\ Len(s) <= MaxScope
    /\ \A i \in 1..Len(s) : ValBounded(s[i].val)
    /\ \A i \in 1..Len(fs) : fs[i].name \in DOMAIN E => Len(E[fs[i].name]) <= MaxCands

\* The engine once the host has loaded its script library: fn h, fn g.
ScriptEngine == install_fns(HostEngine, <<Fn_h, Fn_g>>, 1).E

Init ==
    /\ fns = ScriptEngine
    /\ scope = <<>>
    /\ result = Ok(UnitV)
    /\ args = <<>>
    /\ last = [op |-> "new"]

EvalWithScope(p, T) ==
    \E x \in {eval_with_scope(fns, scope, Prog(p).os, Prog(p).fns, T)} :
    /\ Kept(x.E, x.s, x.r, Prog(p).fns)
    /\ fns' = x.E
    /\ scope' = x.s
    /\ result' = x.r
    /\ last' = [op |-> "eval_with_scope", prog |-> p, T |-> T, scope |-> scope]
    /\ UNCHANGED args

ConsumeWithScope(p) ==
    \E x \in {consume_with_scope(fns, scope, Prog(p).os, Prog(p).fns)} :
    /\ Kept(x.E, x.s, x.r, Prog(p).fns)
    /\ fns' = x.E
    /\ scope' = x.s
    /\ result' = x.r
    /\ last' = [op |-> "consume_with_scope", prog |-> p, scope |-> scope]
    /\ UNCHANGED args

\* Engine::eval::<T>(input): the caller's scope is not involved
Eval(p, T) ==
    \E x \in {eval(fns, Prog(p).os, Prog(p).fns, T)} :
    /\ Kept(x.E, <<>>, x.r, Prog(p).fns)
    /\ fns' = x.E
    /\ result' = x.r
    /\ last' = [op |-> "eval", prog |-> p, T |-> T]
    /\ UNCHANGED <<scope, args>>

\* Engine::consume(input)
Consume(p) ==
    \E x \in {consume(fns, Prog(p).os, Prog(p).fns)} :
    /\ Kept(x.E, <<>>, x.r, Prog(p).fns)
    /\ fns' = x.E
    /\ result' = x.r
    /\ last' = [op |-> "consume", prog |-> p]
    /\ UNCHANGED <<scope, args>>

Next ==
    \/ \E p \in ValueProgs, T \in OutTypes : EvalWithScope(p, T)
    \/ \E p \in ScopeProgs : ConsumeWithScope(p)
    \/ \E p \in FreshProgs, T \in OutTypes : Eval(p, T)
    \/ \E p \in FreshProgs : Consume(p)

Spec == Init /\ [][Next]_vars

\* ------------------------------------------------------------------ installs
\* The entry points on scripts that define functions, from the host's engine.
\* scripts that define, define again, define twice and only call fn next
NextFnProgs == {"def_next1", "def_next2", "dup_next", "call_next"}
InstallProgs == {"own_fn", "six", "seven", "let_n", "seven_mid", "fail_mid"}

InitInstall ==
    /\ fns = HostEngine
    /\ scope = <<>>
    /\ result = Ok(UnitV)
    /\ args = <<>>
    /\ last = [op |-> "new"]

NextInstall ==
    \/ \E p \in InstallProgs, T \in OutTypes : EvalWithScope(p, T)
    \/ \E p \in InstallProgs : ConsumeWithScope(p)
    \/ \E p \in InstallProgs, T \in OutTypes : Eval(p, T)
    \/ \E p \in InstallProgs : Consume(p)

SpecInstall == InitInstall /\ [][NextInstall]_vars

\* The registry under scripts that define the same function again.
NextRegistry ==
    \/ \E p \in NextFnProgs, T \in OutTypes : Eval(p, T)
    \/ \E p \in NextFnProgs, T \in OutTypes : EvalWithScope(p, T)
    \/ \E p \in NextFnProgs \cup {"let_n"} : ConsumeWithScope(p)

SpecRegistry == InitInstall /\ [][NextRegistry]_vars

\* ------------------------------------------------------------------ members
\* Dotted reads and writes on the host types, from the host's engine.
DotProgs ==
    {"let_o", "set_oyx", "let_a_pt", "let_a_pts", "let_a_arr", "let_n", "upd_a", "upd_a1",
     "set_a1x"}
DotValueProgs == {"read_oyx", "read_oy"}
\* assignments whose left-hand side is no variable, element or member
BadLhsProgs ==
    {"bad_lit", "bad_call", "bad_arr", "bad_root", "bad_member_call", "bad_member_idx"}

NextDot ==
    \/ \E p \in DotProgs \cup BadLhsProgs : ConsumeWithScope(p)
    \/ \E p \in DotValueProgs, T \in OutTypes : EvalWithScope(p, T)

SpecDot == InitInstall /\ [][NextDot]_vars
\* ------------------------------------------------------------------ statements
\* Guarded statements and assignments on a caller scope, from the engine with
\* the host's script library.
GuardProgs == {"if_n", "ifelse_n", "while_n"}
\* method calls with 0, 1, 5 and 6 arguments after the receiver
MethodProgs == {"upd_a", "meth_h", "meth_six", "meth_over"}
StmtProgs == {"let_n", "let_n_true", "let_n_false", "let_a_int", "let_a_pt"} \cup GuardProgs
\* statements at the boundary: nothing to run, or nothing run to its end
BoundaryProgs == {"empty_blk", "if_false", "while_false", "loop_break"}
StmtValueProgs == {"read_n"} \cup BoundaryProgs \cup MethodProgs

\* The engine with the host's script library: fn h, fn g, fn six.
StmtEngine == install_fns(ScriptEngine, <<Fn_six>>, 1).E

InitStmt ==
    /\ fns = StmtEngine
    /\ scope = <<>>
    /\ result = Ok(UnitV)
    /\ args = <<>>
    /\ last = [op |-> "new"]

NextStmt ==
    \/ \E p \in StmtProgs : ConsumeWithScope(p)
    \/ \E p \in StmtValueProgs, T \in OutTypes : EvalWithScope(p, T)

SpecStmt == InitStmt /\ [][NextStmt]_vars
\* ------------------------------------------------------------------ variables
\* Reads and assignments of variables and array elements on a caller scope.
VarProgs == {"let_n", "let_u", "let_a_int", "let_a_arr", "let_a_pt", "let_n_n1", "blk_norm"}
\* expressions of every kind that reaches the scope or the registry
ExprProgs == {"n_plus_1", "call_h", "call_g", "upd_a", "set_ax", "read_ax"}
\* reads and assignments of the element a[1], and of a[true]
IndexProgs == {"set_a1", "set_a1_arr", "read_a1", "set_a_true", "read_a_true"}
VarValueProgs == {"set_n3", "read_n", "read_a", "set_a1"} \cup ExprProgs

NextVar ==
    \/ \E p \in VarProgs : ConsumeWithScope(p)
    \/ \E p \in VarValueProgs, T \in OutTypes : EvalWithScope(p, T)

SpecVar == InitStmt /\ [][NextVar]_vars

\* Reads and assignments of array elements on a caller scope.
IndexSetupProgs == {"let_a_int", "let_a_arr", "let_n"}

NextIndex ==
    \/ \E p \in IndexSetupProgs : ConsumeWithScope(p)
    \/ \E p \in IndexProgs, T \in OutTypes : EvalWithScope(p, T)

SpecIndex == InitStmt /\ [][NextIndex]_vars
\* ------------------------------------------------------------------ dispatch
\* The engine the calls are made on: the host's engine with the script
\* functions h, deep, tail, ret0, lost and brk loaded.
CallEngine ==
    install_fns(HostEngine, <<Fn_h, Fn_deep, Fn_tail, Fn_ret0, Fn_lost, Fn_brk>>, 1).E

\* the natives a host registers under the name f
HostCands ==
    {ExternalFn(1, "first"), ExternalFn(1, "second"), ExternalFn(1, "fail_index"),
     ExternalFn(2, "pair")}
\* the names called and the argument lists passed
CallNames == {"f", "h", "deep", "tail", "ret0", "lost", "brk", "zz"}
CallArgs == {<<>>, <<IntV(0)>>, <<IntV(2)>>, <<BoolV(TRUE)>>, <<IntV(1), IntV(2)>>}

InitCall ==
    /\ fns = CallEngine
    /\ scope = <<>>
    /\ result = Ok(UnitV)
    /\ args = <<>>
    /\ last = [op |-> "new"]

\* register_fn(name, c): a candidate is appended to the list of the name
RegisterFn(name, c) ==
    /\ IF name \in DOMAIN fns THEN Len(fns[name]) < MaxCands ELSE TRUE
    /\ fns' = Install(fns, name, c)
    /\ result' = Ok(UnitV)
    /\ last' = [op |-> "register_fn", name |-> name]
    /\ UNCHANGED <<scope, args>>

\* Engine::call_fn(name, a)
CallFn(name, a) ==
    \E c \in {self_call_fn(fns, name, a)} :
    /\ ~NoReturn(c.r)
    /\ result' = c.r
    /\ args' = c.a
    /\ last' = [op |-> "call_fn", name |-> name, args |-> a]
    /\ UNCHANGED <<fns, scope>>

NextCall ==
    \/ \E c \in HostCands : RegisterFn("f", c)
    \/ \E p \in LibProgs : Consume(p)
    \/ \E name \in CallNames, a \in CallArgs : CallFn(name, a)

SpecCall == InitCall /\ [][NextCall]_vars
\* ------------------------------------------------------------------ properties
Names(s) == [i \in 1..Len(s) |-> s[i].name]
HasBinding(s, n) == \E i \in 1..Len(s) : s[i].name = n
\* the most recently pushed binding named n
Innermost(s, n) ==
    CHOOSE i \in 1..Len(s) : s[i].name = n /\ \A j \in (i + 1)..Len(s) : s[j].name # n
ScopeOp == last.op \in {"eval_with_scope", "consume_with_scope"}
LastOs == Prog(last.prog).os
VarNames == {"a", "b", "n"}

RECURSIVE Contained(_), HasBlock(_)
\* every Var of the statement sits inside a Block of the statement
Contained(st) ==
    CASE st.k = "Var" -> FALSE
      [] st.k \in {"If", "While", "Loop"} -> Contained(st.body)
      [] st.k = "IfElse" -> Contained(st.body) /\ Contained(st.else_body)
      [] OTHER -> TRUE
HasBlock(st) ==
    CASE st.k = "Block" -> TRUE
      [] st.k \in {"If", "While", "Loop"} -> HasBlock(st.body)
      [] st.k = "IfElse" -> HasBlock(st.body) \/ HasBlock(st.else_body)
      [] OTHER -> FALSE

\* C1: when the statements of a script are Blocks, or Blocks under if, while
\* and loop, the scope has the same length and the same names in the same
\* order after the run as before it, whether the Block ended normally, on an
\* error, on a LoopBreak or on a Return raised in a nested Block.
C1_BlockScopeIntegrity ==
    (ScopeOp /\ \A i \in 1..Len(LastOs) : Contained(LastOs[i]) /\ HasBlock(LastOs[i]))
        => Names(scope) = Names(last.scope)

\* a LoopBreak raised two Blocks deep under an if, on a scope of two bindings
C1_Witness ==
    /\ ScopeOp /\ last.prog = "if_blk_break"
    /\ result = LoopBreak
    /\ Len(last.scope) = 2 /\ Names(scope) = Names(last.scope)

\* the Block opens with `let n = <constant or identifier>`
DeclaresFirst(st, n) ==
    /\ st.k = "Block" /\ Len(st.body) > 0
    /\ st.body[1].k = "Var" /\ st.body[1].n = n
    /\ st.body[1].init = <<>> \/ st.body[1].init[1].k \in {"IntConst", "Identifier"}

\* C2: a successful read of Identifier(n) gives the value of the innermost
\* binding named n; and after a Block that opens by declaring its own n, the
\* innermost binding named n is the one that was innermost before the Block,
\* with the value it had (after any Block the slot is the same one).
C2_Shadowing ==
    /\ (last.op = "eval_with_scope" /\ last.prog \in {"read_n", "read_a"} /\ IsOk(result))
         => LET n == LastOs[1].e.n IN result.v = scope[Innermost(scope, n)].val
    /\ \A n \in VarNames :
         (ScopeOp /\ Len(LastOs) = 1 /\ LastOs[1].k = "Block" /\ HasBinding(last.scope, n))
           => /\ HasBinding(scope, n)
              /\ Innermost(scope, n) = Innermost(last.scope, n)
              /\ DeclaresFirst(LastOs[1], n)
                   => scope[Innermost(scope, n)].val = last.scope[Innermost(last.scope, n)].val

\* { let n = 0; n = 3; } run where n was 2: the outer n is still 2
C2_Witness ==
    /\ ScopeOp /\ last.prog = "shadow" /\ IsOk(result)
    /\ HasBinding(last.scope, "n")
    /\ scope[Innermost(scope, "n")].val = IntV(2)

\* what reading the variable n gives on scope s
ReadVar(s, n) == self_eval_expr(fns, s, Identifier(n)).r
CopyProgs == {"copy_assign", "copy_setx", "copy_update", "copy_index"}

\* C3: after `let b = a` followed by an assignment to b, an indexed
\* assignment b[0] = v, a dotted assignment b.x = v or a mutating method call
\* b.update(), reading a gives what it gave before.
C3_ValueSemantics ==
    (ScopeOp /\ last.prog \in CopyProgs) => ReadVar(scope, "a") = ReadVar(last.scope, "a")

\* b.x = 2 has changed the copy b and not the Point a
C3_Witness ==
    /\ ScopeOp /\ last.prog = "copy_setx" /\ IsOk(result)
    /\ last.scope = <<Binding("a", PointV(0))>>
    /\ scope = <<Binding("a", PointV(0)), Binding("b", PointV(2))>>
    /\ ReadVar(scope, "a") = Ok(PointV(0))
\* ---- dispatch
IsCall == last.op = "call_fn"
HasEntry == last.name \in DOMAIN fns
\* a typed native of the call's arity whose parameter types are those of a
Accepts(c, a) ==
    /\ c.kind = "ExternalFn" /\ c.f \notin RawFns /\ c.arity = Len(a)
    /\ \A i \in 1..Len(a) : a[i].t = ParamTypes(c.f)[i]
IsScript(c) == c.kind = "InternalFn"
\* the first candidate of vf that accepts a, 0 when there is none
FirstAccepting(vf, a) ==
    LET m == {i \in 1..Len(vf) : Accepts(vf[i], a)}
    IN  IF m = {} THEN 0 ELSE CHOOSE i \in m : \A j \in m : i <= j

\* C4: when two natives of the call's arity both accept the arguments (and no
\* script candidate stands before the first of them), the call returns what
\* the earlier-registered one returns, and the argument boxes are as that one
\* left them: the later one has not run.
C4_DispatchDeterminism ==
    (IsCall /\ HasEntry) =>
        LET vf == fns[last.name]
            i == FirstAccepting(vf, last.args)
        IN  (/\ i # 0
             /\ \E j \in (i + 1)..Len(vf) : Accepts(vf[j], last.args)
             /\ \A j \in 1..(i - 1) : ~IsScript(vf[j]))
            => /\ result = Ok(HostFn(vf[i].f, last.args).v)
               /\ args = HostFn(vf[i].f, last.args).a

\* f = [first, second] called on 0: first has answered 1 and set the box to 1
C4_Witness ==
    /\ IsCall /\ last.name = "f" /\ last.args = <<IntV(0)>>
    /\ HasEntry /\ fns["f"] = <<ExternalFn(1, "first"), ExternalFn(1, "second")>>
    /\ result = Ok(IntV(1)) /\ args = <<IntV(1)>>

\* a native of the call's arity that fails with an error other than the
\* argument type mismatch, reached before any candidate has answered
FirstFailing(vf, a) ==
    LET m == {i \in 1..Len(vf) :
                /\ vf[i].kind = "ExternalFn" /\ vf[i].f \in RawFns /\ vf[i].arity = Len(a)
                /\ \A j \in 1..(i - 1) : ~IsScript(vf[j]) /\ ~Accepts(vf[j], a)}
    IN  IF m = {} THEN 0 ELSE CHOOSE i \in m : \A j \in m : i <= j

\* C5: when a native of the call's arity returns an error other than the
\* argument type mismatch, call_fn returns that error: no later candidate
\* answers and the error is not replaced by ErrorFunctionArgMismatch.
C5_OtherErrorSurfaces ==
    (IsCall /\ HasEntry) =>
        LET i == FirstFailing(fns[last.name], last.args)
        IN  i # 0 => result = RawError(fns[last.name][i].f)

\* the candidates of name whose arity is k
SameArity(E, name, k) ==
    [E EXCEPT ![name] =
        SelectSeq(@, LAMBDA c : IF IsScript(c) THEN Len(c.def.params) = k ELSE c.arity = k)]

\* C6: the candidates whose arity differs from the number of arguments do not
\* affect the outcome: the call gives what it gives on the list without them.
C6_OtherArityIgnored ==
    (IsCall /\ HasEntry) =>
        LET c == self_call_fn(SameArity(fns, last.name, Len(last.args)), last.name, last.args)
        IN  result = c.r /\ args = c.a

\* no candidate of vf takes a: natives of another arity or of other types,
\* scripts of another parameter count
NoneAccepts(vf, a) ==
    \A i \in 1..Len(vf) :
        IF IsScript(vf[i]) THEN Len(vf[i].def.params) # Len(a)
        ELSE ~Accepts(vf[i], a) /\ ~(vf[i].f \in RawFns /\ vf[i].arity = Len(a))
\* a script candidate of the call's arity whose body, run on the arguments,
\* ends in ErrorFunctionNotFound
BodyNotFound(vf, a) ==
    \E i \in 1..Len(vf) :
        /\ IsScript(vf[i]) /\ Len(vf[i].def.params) = Len(a)
        /\ self_eval_stmt(fns, [j \in 1..Len(a) |-> Binding(vf[i].def.params[j], a[j])],
                     vf[i].def.body).r = ErrorFunctionNotFound

\* C7 as stated: ErrorFunctionNotFound exactly when the name has no entry.
C7_NotFoundIffNoEntry ==
    IsCall => (result = ErrorFunctionNotFound <=> ~HasEntry)

\* C7 as amended: no entry gives ErrorFunctionNotFound; with an entry,
\* ErrorFunctionNotFound comes only out of the body of a script candidate of
\* the call's arity; with an entry none of whose candidates takes the
\* arguments the call gives ErrorFunctionArgMismatch.
C7_NotFound ==
    IsCall =>
        /\ ~HasEntry => result = ErrorFunctionNotFound
        /\ (HasEntry /\ result = ErrorFunctionNotFound)
             => BodyNotFound(fns[last.name], last.args)
        /\ (HasEntry /\ NoneAccepts(fns[last.name], last.args))
             => result = ErrorFunctionArgMismatch

\* f holds only the two-argument native pair and is called with one argument
C7_Witness ==
    /\ IsCall /\ last.name = "f" /\ last.args = <<IntV(0)>>
    /\ HasEntry /\ fns["f"] = <<ExternalFn(2, "pair")>>
    /\ result = ErrorFunctionArgMismatch
\* ---- script calls
\* C8: a script call runs its body in a scope of its own that holds the
\* parameters bound to the arguments in order. h(n, 1) assigns its parameter a
\* and declares a local n, and returns its second parameter: the caller's
\* scope is afterwards what it was before and the call gives 1. g() reads n,
\* which is neither a parameter nor a local of g: it gives VariableNotFound
\* whether or not the caller binds n.
C8_FreshCalleeScope ==
    (ScopeOp /\ last.prog \in {"call_h", "call_g"}) =>
        /\ scope = last.scope
        /\ last.prog = "call_g" => result = ErrorVariableNotFound("n")
        /\ (/\ last.prog = "call_h" /\ last.op = "eval_with_scope" /\ last.T = "i64"
            /\ HasBinding(last.scope, "n")
            /\ last.scope[Innermost(last.scope, "n")].val.t = "i64")
           => result = Ok(IntV(1))

\* h(n, 1) has returned 1 to a caller that binds n to 2 and still does
C8_Witness ==
    /\ last.op = "eval_with_scope" /\ last.prog = "call_h" /\ last.T = "i64"
    /\ last.scope = <<Binding("n", IntV(2))>>
    /\ scope = <<Binding("n", IntV(2))>>
    /\ result = Ok(IntV(1))

\* g() has failed on n for a caller that binds n
C8_WitnessNotFound ==
    /\ ScopeOp /\ last.prog = "call_g" /\ HasBinding(last.scope, "n")
    /\ result = ErrorVariableNotFound("n")

\* C9: a script call returns x when its body raises Return(x): deep(a) raises
\* it inside a block in an if in a while and gives a + 1, neither the
\* assignment after the if nor the 3 after the loop has effect, and ret0()
\* gives unit, not the 3 that follows its return. A body that raises no Return
\* gives the value of its last statement: tail(a) gives 2.
C9_ReturnFromAnyDepth ==
    IsCall =>
        /\ (last.name = "deep" /\ Len(last.args) = 1 /\ last.args[1].t = "i64")
             => result = Ok(IntV(last.args[1].i + 1))
        /\ (last.name = "ret0" /\ last.args = <<>>) => result = Ok(UnitV)
        /\ (last.name = "tail" /\ Len(last.args) = 1 /\ last.args[1].t \in {"i64", "bool"})
             => result = Ok(IntV(2))

\* deep(2) has returned 3
C9_Witness ==
    /\ IsCall /\ last.name = "deep" /\ last.args = <<IntV(2)>>
    /\ result = Ok(IntV(3))

\* ---- loops
\* C10: a break stops the nearest enclosing loop only. In both scripts the
\* inner loop breaks before its c = c + 2 and the outer loop goes round twice,
\* doing c = c + 1 after the inner loop each time: the script ends without
\* error and has stored c = 2 in the caller's n.
C10_BreakNearestLoop ==
    (ScopeOp /\ last.prog \in {"brk_inner", "brk_outer"} /\ HasBinding(last.scope, "n")) =>
        /\ IsOk(result)
        /\ Names(scope) = Names(last.scope)
        /\ scope[Innermost(scope, "n")].val = IntV(2)

\* the while-around-loop script has run for a caller whose n was 3
C10_Witness ==
    /\ ScopeOp /\ last.prog = "brk_inner"
    /\ last.scope = <<Binding("n", IntV(3))>>
    /\ scope = <<Binding("n", IntV(2))>>
    /\ IsOk(result)
\* ---- control-flow signals
\* C11: a script call never completes with LoopBreak as its outcome: a break
\* in a function body outside any loop of that body stays inside the call.
C11_NoLoopBreakAcrossCall ==
    IsCall => result # LoopBreak

\* C12: neither LoopBreak nor Return(_) is what eval_with_scope or
\* consume_with_scope hands back to the user.
C12_NoSignalEscapes ==
    ScopeOp => result.e \notin {"LoopBreak", "Return"}
\* C13: `return 1; let b = 1;` as the entry program: eval_with_scope returns
\* an error (so neither unit nor 1 as a successful result) and the let after
\* the return has not run, the scope is what it was.
C13_TopLevelReturnIsError ==
    (last.op = "eval_with_scope" /\ last.prog = "ret_top") =>
        ~IsOk(result) /\ scope = last.scope

\* the entry program has returned at top level on a scope binding n
C13_Witness ==
    /\ last.op = "eval_with_scope" /\ last.prog = "ret_top" /\ last.T = "i64"
    /\ last.scope = <<Binding("n", IntV(2))>>
    /\ result.e = "Return" /\ result.v = IntV(1)
    /\ scope = last.scope
\* ---- function installation
EvalOp == last.op \in {"eval_with_scope", "eval"}
ConsumeOp == last.op \in {"consume_with_scope", "consume"}
ArityNotSupported == Err("ErrorFunctionArityNotSupported")
\* the caller's scope before the last call (eval and consume take none)
ScopeBefore == IF ScopeOp THEN last.scope ELSE scope

\* C14: eval / eval_with_scope on a script that defines a function of seven
\* parameters gives ArityNotSupported and its `let b = 1;` has not run; a
\* script whose functions have six parameters or fewer is never answered
\* with ArityNotSupported, and its function of six parameters is installed.
C14_ArityEnforcement ==
    EvalOp =>
        /\ last.prog = "seven" => (result = ArityNotSupported /\ scope = ScopeBefore)
        /\ last.prog \in {"six", "own_fn", "let_n"} => result # ArityNotSupported
        /\ last.prog = "six" => "six" \in DOMAIN fns

\* eval_with_scope has rejected the seven-parameter script on a scope binding n
C14_Witness ==
    /\ last.op = "eval_with_scope" /\ last.prog = "seven"
    /\ last.scope = <<Binding("n", IntV(2))>> /\ scope = last.scope
    /\ result = ArityNotSupported

\* C15: consume / consume_with_scope never gives ArityNotSupported: on the
\* script with the seven-parameter function it gives Ok and the function is
\* not in the registry, where eval / eval_with_scope gives ArityNotSupported.
C15_ConsumeSkipsSilently ==
    /\ ConsumeOp => result # ArityNotSupported
    /\ (ConsumeOp /\ last.prog = "seven") => result = Ok(UnitV)
    /\ "seven" \notin DOMAIN fns
    /\ (EvalOp /\ last.prog = "seven") => result = ArityNotSupported

\* consume_with_scope has taken the seven-parameter script without error
C15_Witness ==
    /\ last.op = "consume_with_scope" /\ last.prog = "seven"
    /\ result = Ok(UnitV) /\ "seven" \notin DOMAIN fns

\* C20: `later(1)` in a script that itself defines fn later(a) { a + 1 }
\* finds the function: eval gives 2, consume raises no error, also on an
\* engine that did not know later before the call.
C20_InstallBeforeEval ==
    /\ (EvalOp /\ last.prog = "own_fn" /\ last.T = "i64") => result = Ok(IntV(2))
    /\ (ConsumeOp /\ last.prog = "own_fn") => result = Ok(UnitV)

\* the first script to define later has called it: one candidate, result 2
C20_Witness ==
    /\ last.op = "eval_with_scope" /\ last.prog = "own_fn" /\ last.T = "i64"
    /\ "later" \in DOMAIN fns /\ Len(fns["later"]) = 1
    /\ result = Ok(IntV(2))
\* ---- scope persistence
\* C19: the binding a top-level let pushes stays in the caller's scope with
\* its final value when eval_with_scope returns (`let n = 1; n = n + 1;`
\* leaves n = 2 on top of what was there), and a later `n + 1` on that scope
\* sees it; eval and consume start from an empty scope, so `n + 1` and `n`
\* find no n whatever was run before.
C19_ScopePersistence ==
    /\ (ScopeOp /\ last.prog = "let_n_inc") =>
           scope = Append(last.scope, Binding("n", IntV(2)))
    /\ (/\ last.op = "eval_with_scope" /\ last.prog = "n_plus_1" /\ last.T = "i64"
        /\ HasBinding(last.scope, "n")
        /\ last.scope[Innermost(last.scope, "n")].val.t = "i64")
       => result = Ok(IntV(last.scope[Innermost(last.scope, "n")].val.i + 1))
    /\ (last.op \in {"eval", "consume"} /\ last.prog \in {"n_plus_1", "read_n"})
       => result = ErrorVariableNotFound("n")

\* `n + 1` has given 3 on the scope an earlier call left n = 2 in
C19_Witness ==
    /\ last.op = "eval_with_scope" /\ last.prog = "n_plus_1" /\ last.T = "i64"
    /\ last.scope = <<Binding("n", IntV(2))>>
    /\ result = Ok(IntV(3))

\* eval has found no n although the caller's scope binds it
C19_WitnessFresh ==
    /\ last.op = "eval" /\ last.prog = "n_plus_1" /\ HasBinding(scope, "n")
    /\ result = ErrorVariableNotFound("n")
\* ---- dotted get and set
\* the value of the innermost binding named n in the scope before the call
Before(n) == last.scope[Innermost(last.scope, n)].val
\* the scope before the call with the innermost binding named n set to v
BeforeExcept(n, v) == [last.scope EXCEPT ![Innermost(last.scope, n)].val = v]
OYX == Dot(Id("o"), Dot(Id("y"), Id("x")))
OY == Dot(Id("o"), Id("y"))

\* C16: after `o.y.x = 2` on a scope whose innermost o is an Outer, the
\* innermost o is an Outer whose y is a Point whose x is 2 and nothing else
\* in the scope has changed; reading o.y.x then gives 2 and reading o.y gives
\* a Point whose x is 2.  A read of o.y.x by eval_with_scope gives what the
\* binding holds.
C16_DottedSetWriteBack ==
    /\ (ScopeOp /\ last.prog = "set_oyx" /\ HasBinding(last.scope, "o")
          /\ Before("o").t = "Outer") =>
           /\ result = Ok(UnitV)
           /\ scope = BeforeExcept("o", OuterV(PointV(2)))
           /\ self_eval_expr(fns, scope, OYX).r = Ok(IntV(2))
           /\ self_eval_expr(fns, scope, OY).r = Ok(PointV(2))
    /\ (last.op = "eval_with_scope" /\ last.prog = "read_oyx" /\ last.T = "i64"
          /\ HasBinding(last.scope, "o") /\ Before("o").t = "Outer") =>
           result = Ok(IntV(Before("o").y.x)) /\ scope = last.scope

\* o.y.x has been set on a scope with two bindings o: the inner one holds 2
C16_Witness ==
    /\ ScopeOp /\ last.prog = "set_oyx"
    /\ last.scope = <<Binding("o", OuterV(PointV(0))), Binding("o", OuterV(PointV(0)))>>
    /\ scope = <<Binding("o", OuterV(PointV(0))), Binding("o", OuterV(PointV(2)))>>

\* the set value has been read back by a later call
C16_WitnessRead ==
    /\ last.op = "eval_with_scope" /\ last.prog = "read_oyx" /\ last.T = "i64"
    /\ result = Ok(IntV(2))

Toggled(p) == PointV(IF p.x = 0 THEN 1 ELSE 0)
IsPoints(v) == v.t = "array" /\ Len(v.a) = 2 /\ \A i \in 1..2 : v.a[i].t = "Point"

\* C17: `a.update()` on a scope whose innermost a is a Point leaves that
\* binding holding the updated Point; `a[1].update()` and `a[1].x = 2` on a
\* scope whose innermost a is an array of two Points replace element 1 of
\* that binding by the updated Point and leave element 0 alone; in each case
\* every other binding and the length of the scope are as before.
C17_CloneWriteBack ==
    /\ (ScopeOp /\ last.prog = "upd_a" /\ HasBinding(last.scope, "a")
          /\ Before("a").t = "Point") =>
           result = Ok(UnitV) /\ scope = BeforeExcept("a", Toggled(Before("a")))
    /\ (ScopeOp /\ last.prog = "upd_a1" /\ HasBinding(last.scope, "a")
          /\ IsPoints(Before("a"))) =>
           /\ result = Ok(UnitV)
           /\ scope = BeforeExcept("a", ArrV(<<Before("a").a[1], Toggled(Before("a").a[2])>>))
    /\ (ScopeOp /\ last.prog = "set_a1x" /\ HasBinding(last.scope, "a")
          /\ IsPoints(Before("a"))) =>
           /\ result = Ok(UnitV)
           /\ scope = BeforeExcept("a", ArrV(<<Before("a").a[1], PointV(2)>>))

\* a[1].update() has run under an outer binding a: element 1 of the inner a changed
C17_Witness ==
    /\ ScopeOp /\ last.prog = "upd_a1"
    /\ last.scope = <<Binding("a", PointV(0)), Binding("a", ArrV(<<PointV(0), PointV(2)>>))>>
    /\ scope = <<Binding("a", PointV(0)), Binding("a", ArrV(<<PointV(0), PointV(0)>>))>>

\* a.update() has run on a Point
C17_WitnessMethod ==
    /\ ScopeOp /\ last.prog = "upd_a"
    /\ last.scope = <<Binding("n", IntV(2)), Binding("a", PointV(0))>>
    /\ scope = <<Binding("n", IntV(2)), Binding("a", PointV(1))>>
BindsNA == HasBinding(last.scope, "n") /\ HasBinding(last.scope, "a")

\* C21: `if n { a = 3; }`, `if n { a = 3; } else { n = 0; }` and
\* `while n { a = 3; n = false; }` on a scope binding n and a.  When n holds
\* an i64 the statement yields IfGuardMismatch and the scope is untouched
\* (no branch, no body has run).  When n holds true, if and if-else run the
\* body only (a becomes 3, n stays); when n holds false, if runs nothing and
\* if-else runs the else branch only (n becomes 0, a stays).
C21_GuardSelectsBranch ==
    (ScopeOp /\ last.prog \in GuardProgs /\ BindsNA) =>
        /\ Before("n").t = "i64" =>
               result.e = "ErrorIfGuardMismatch" /\ scope = last.scope
        /\ (Before("n") = BoolV(TRUE) /\ last.prog \in {"if_n", "ifelse_n"}) =>
               result = Ok(UnitV) /\ scope = BeforeExcept("a", IntV(3))
        /\ (Before("n") = BoolV(FALSE) /\ last.prog = "if_n") =>
               result = Ok(UnitV) /\ scope = last.scope
        /\ (Before("n") = BoolV(FALSE) /\ last.prog = "ifelse_n") =>
               result = Ok(UnitV) /\ scope = BeforeExcept("n", IntV(0))
        /\ (Before("n") = BoolV(FALSE) /\ last.prog = "while_n") =>
               result = Ok(UnitV) /\ scope = last.scope

\* while over an i64 guard has failed without running its body
C21_Witness ==
    /\ ScopeOp /\ last.prog = "while_n"
    /\ last.scope = <<Binding("n", IntV(2)), Binding("a", IntV(1))>>
    /\ result.e = "ErrorIfGuardMismatch" /\ scope = last.scope

\* if-else over false has run its else branch and not its body
C21_WitnessElse ==
    /\ ScopeOp /\ last.prog = "ifelse_n"
    /\ last.scope = <<Binding("a", IntV(1)), Binding("n", BoolV(FALSE))>>
    /\ scope = <<Binding("a", IntV(1)), Binding("n", IntV(0))>>
\* ---- boundary results
\* C22: `{ }`, `if false { n = 3; }`, `while false { n = 3; }` and
\* `loop { break; n = 3; }` each evaluate to unit (eval_with_scope::<()>
\* returns it) and leave the scope as it was: the assignment to n has not
\* run, also where the scope binds n.
C22_BoundaryResults ==
    (last.op = "eval_with_scope" /\ last.prog \in BoundaryProgs) =>
        /\ scope = last.scope
        /\ last.T = "unit" => result = Ok(UnitV)
        /\ self_eval_stmt(fns, last.scope, LastOs[1]) = [s |-> last.scope, r |-> Ok(UnitV)]

\* loop { break; n = 3; } has given unit on a scope whose n is still 2
C22_Witness ==
    /\ last.op = "eval_with_scope" /\ last.prog = "loop_break" /\ last.T = "unit"
    /\ last.scope = <<Binding("n", IntV(2))>> /\ scope = last.scope
    /\ result = Ok(UnitV)

\* while false has given unit without running its body
C22_WitnessWhile ==
    /\ last.op = "eval_with_scope" /\ last.prog = "while_false" /\ last.T = "unit"
    /\ last.scope = <<Binding("n", IntV(2))>> /\ scope = last.scope
    /\ result = Ok(UnitV)
\* ---- method calls
\* the arguments written after the receiver in the method-call scripts
MethodArgs(p) ==
    CASE p = "upd_a" -> <<>>
      [] p = "meth_h" -> <<IntV(1)>>
      [] p = "meth_six" -> <<IntV(0), IntV(1), IntV(2), IntV(3), IntV(1)>>
MethodName(p) == LastOs[1].e.rhs.n

\* C23: `a.update()`, `a.h(1)` and `a.six(0, 1, 2, 3, 1)` on a scope whose
\* innermost a holds an i64 or a Point give what call_fn gives on the
\* receiver followed by the arguments in the order written (h returns its
\* second parameter: 1; six returns its sixth: 1), and the innermost a is
\* afterwards the receiver box as that call left it, nothing else changed.
\* `a.six(n = 3, 0, 0, 0, 0, 1)`, six arguments after the receiver, gives
\* ErrorFunctionCallNotSupported; n = 3 has not run and a is as before.
C23_MethodCall ==
    (last.op = "eval_with_scope" /\ last.prog \in MethodProgs
       /\ HasBinding(last.scope, "a") /\ Before("a").t \in {"i64", "Point"}) =>
        /\ last.prog # "meth_over" =>
             LET c == self_call_fn(fns, MethodName(last.prog),
                                   <<Before("a")>> \o MethodArgs(last.prog))
             IN  /\ result = Downcast(c.r, last.T)
                 /\ scope = BeforeExcept("a", c.a[1])
        /\ (last.prog \in {"meth_h", "meth_six"} /\ last.T = "i64") =>
             result = Ok(IntV(1)) /\ scope = last.scope
        /\ last.prog = "meth_over" =>
             result.e = "ErrorFunctionCallNotSupported" /\ scope = last.scope

\* six arguments after the receiver have been refused, n is still 2
C23_Witness ==
    /\ last.op = "eval_with_scope" /\ last.prog = "meth_over"
    /\ last.scope = <<Binding("n", IntV(2)), Binding("a", PointV(0))>>
    /\ scope = last.scope
    /\ result.e = "ErrorFunctionCallNotSupported"

\* five arguments after the receiver have reached six in order
C23_WitnessFive ==
    /\ last.op = "eval_with_scope" /\ last.prog = "meth_six" /\ last.T = "i64"
    /\ last.scope = <<Binding("a", PointV(0))>>
    /\ result = Ok(IntV(1))
\* ---- assignment to a variable
\* C24: `n = 3` on a scope that binds n sets the innermost binding named n
\* to 3, leaves every other binding (an outer n too), the length and the
\* names as they were, and evaluates to unit; on a scope without n it gives
\* VariableNotFound(n) and the scope is as before.
C24_AssignInnermost ==
    (last.op = "eval_with_scope" /\ last.prog = "set_n3") =>
        IF HasBinding(last.scope, "n")
        THEN /\ scope = BeforeExcept("n", IntV(3))
             /\ last.T = "unit" => result = Ok(UnitV)
             /\ self_eval_expr(fns, last.scope, LastOs[1].e).r = Ok(UnitV)
        ELSE result = ErrorVariableNotFound("n") /\ scope = last.scope

\* n = 3 under two bindings n: the inner one is 3, the outer one still 2
C24_Witness ==
    /\ last.op = "eval_with_scope" /\ last.prog = "set_n3" /\ last.T = "unit"
    /\ last.scope = <<Binding("n", IntV(2)), Binding("n", UnitV)>>
    /\ scope = <<Binding("n", IntV(2)), Binding("n", IntV(3))>>
    /\ result = Ok(UnitV)

\* n = 3 where only a is bound: no n has appeared
C24_WitnessNotFound ==
    /\ last.op = "eval_with_scope" /\ last.prog = "set_n3"
    /\ last.scope = <<Binding("a", IntV(1))>> /\ scope = last.scope
    /\ result = ErrorVariableNotFound("n")
\* ---- indexed assignment
IsPair(v) == v.t = "array" /\ Len(v.a) = 2
A1 == Index("a", IntConst(1))
IndexMismatch == Err("ErrorIndexMismatch")
IndexOp == last.op = "eval_with_scope" /\ last.prog \in IndexProgs /\ HasBinding(last.scope, "a")

\* C25 as stated: after `a[1] = v` on a scope whose innermost a is an array
\* of two, reading a[1] gives v (v is 3 in one script, [1] in the other).
C25_ReadReturnsAssigned ==
    (IndexOp /\ last.prog \in {"set_a1", "set_a1_arr"} /\ IsPair(Before("a"))) =>
        self_eval_expr(fns, scope, A1).r = Ok(self_eval_expr(fns, last.scope, LastOs[1].e.rhs).r.v)

\* C25 as amended: after `a[1] = v` on a scope whose innermost a is an array
\* of two, the innermost a is the same array with slot 1 holding v and slot 0
\* as before, nothing else changed; reading a[1] gives v when v is an i64
\* and ErrorFunctionArgMismatch when v is an array, which no clone candidate
\* accepts.  `a[true] = 3` and `a[true]`, and the three scripts on a scope
\* whose innermost a is not an array, give IndexMismatch and leave the scope
\* as it was.
C25_IndexRoundTrip ==
    IndexOp =>
        /\ (last.prog = "set_a1" /\ IsPair(Before("a"))) =>
             /\ scope = BeforeExcept("a", ArrV(<<Before("a").a[1], IntV(3)>>))
             /\ self_eval_expr(fns, scope, A1) = [s |-> scope, r |-> Ok(IntV(3))]
        /\ (last.prog = "set_a1_arr" /\ IsPair(Before("a"))) =>
             /\ scope = BeforeExcept("a", ArrV(<<Before("a").a[1], ArrV(<<IntV(1)>>)>>))
             /\ self_eval_expr(fns, scope, A1) = [s |-> scope, r |-> ErrorFunctionArgMismatch]
        /\ (last.prog = "read_a1" /\ IsPair(Before("a")) /\ Before("a").a[2].t = "i64"
              /\ last.T = "i64") =>
             result = Ok(Before("a").a[2]) /\ scope = last.scope
        /\ last.prog \in {"set_a_true", "read_a_true"} =>
             result = IndexMismatch /\ scope = last.scope
        /\ Before("a").t # "array" =>
             result = IndexMismatch /\ scope = last.scope

\* a[1] = 3 has run under an outer a, and a[1] reads 3 afterwards
C25_Witness ==
    /\ IndexOp /\ last.prog = "set_a1"
    /\ last.scope = <<Binding("a", IntV(1)), Binding("a", ArrV(<<IntV(1), IntV(2)>>))>>
    /\ scope = <<Binding("a", IntV(1)), Binding("a", ArrV(<<IntV(1), IntV(3)>>))>>
    /\ self_eval_expr(fns, scope, A1).r = Ok(IntV(3))

\* a[true] = 3 has been refused on an array
C25_WitnessMismatch ==
    /\ IndexOp /\ last.prog = "set_a_true" /\ IsPair(Before("a"))
    /\ result = IndexMismatch /\ scope = last.scope
\* ---- the names of the scope
\* every statement of the script is an expression
OnlyExprs == \A i \in 1..Len(LastOs) : LastOs[i].k = "Expr"
\* the script is one let
OneVar == Len(LastOs) = 1 /\ LastOs[1].k = "Var"

\* C26: a script made of expressions (assignment, indexed and dotted set,
\* dotted get, method call, native and script function call) leaves the
\* names of the scope, and so its length, as they were; a script that is one
\* let appends exactly its name when it succeeds and nothing when it fails;
\* `let n = n + 1` on a scope whose innermost n is an i64 appends n bound to
\* that value plus one (the initialiser has read the previous n) and leaves
\* the previous bindings alone; a Block of two lets leaves the names as they
\* were.
C26_NamesChangeByVarOnly ==
    ScopeOp =>
        /\ OnlyExprs => Names(scope) = Names(last.scope)
        /\ OneVar =>
             Names(scope) = IF IsOk(result) THEN Append(Names(last.scope), LastOs[1].n)
                            ELSE Names(last.scope)
        /\ (last.prog = "let_n_n1" /\ HasBinding(last.scope, "n") /\ Before("n").t = "i64") =>
             scope = Append(last.scope, Binding("n", IntV(Before("n").i + 1)))
        /\ last.prog = "blk_norm" => Names(scope) = Names(last.scope)

\* let n = n + 1 has pushed n = 3 on top of n = 2
C26_Witness ==
    /\ ScopeOp /\ last.prog = "let_n_n1"
    /\ last.scope = <<Binding("n", IntV(2))>>
    /\ scope = <<Binding("n", IntV(2)), Binding("n", IntV(3))>>

\* a script function that declares a local has been called: the names are the same
C26_WitnessCall ==
    /\ last.op = "eval_with_scope" /\ last.prog = "call_h" /\ IsOk(result)
    /\ Len(last.scope) = 2 /\ Names(scope) = Names(last.scope)
\* ---- the registry over time
\* every candidate list of E is the beginning of the list of the same name in F
Extends(E, F) ==
    \A name \in DOMAIN E :
        /\ name \in DOMAIN F
        /\ Len(F[name]) >= Len(E[name])
        /\ SubSeq(F[name], 1, Len(E[name])) = E[name]
\* what next(1) gives when d is the definition that answers
NextGives(d) == IF d = Fn_next1 THEN Ok(IntV(2)) ELSE Ok(IntV(3))

\* C27: across every call the registry keeps each name and each candidate
\* list as the beginning of the new one.  next(1), asked for as an i64 by a
\* script that defines next (a + 1 or a + 2), that defines it twice, or that
\* does not define it, gives what the definition installed first gives: the
\* first of an earlier call when there is one, else the first of the
\* script's own; with none at all it gives ErrorFunctionNotFound.
C27_RegistryOnlyGrows ==
    [][/\ Extends(fns, fns')
       /\ (last'.op \in {"eval", "eval_with_scope"} /\ last'.prog \in NextFnProgs
             /\ last'.T = "i64") =>
            result' = IF "next" \in DOMAIN fns THEN NextGives(fns["next"][1].def)
                      ELSE IF last'.prog = "call_next" THEN ErrorFunctionNotFound
                      ELSE IF last'.prog = "def_next2" THEN Ok(IntV(3))
                      ELSE Ok(IntV(2))]_vars

\* a + 2 has been installed after a + 1, and next(1) has still given 2
C27_Witness ==
    /\ last.op = "eval_with_scope" /\ last.prog = "def_next2" /\ last.T = "i64"
    /\ "next" \in DOMAIN fns
    /\ fns["next"] = <<InternalFn(Fn_next1), InternalFn(Fn_next2)>>
    /\ result = Ok(IntV(2))

\* next(1) has been answered in a call after the one that installed next
C27_WitnessLaterCall ==
    /\ last.op = "eval" /\ last.prog = "call_next" /\ last.T = "i64"
    /\ result = Ok(IntV(3))
\* ---- the early return of consume
\* C28: consume / consume_with_scope on a script whose second function has
\* seven parameters (fn six, fn seven, then in one script fn later, and a
\* top-level `let b = 1;`) returns Ok(()); the registry afterwards is the one
\* before with six installed and nothing else: not seven, not the later that
\* follows it; the let has not run, the caller's scope is the one before.
C28_ConsumeStopsAtLongFn ==
    [][(last'.op \in {"consume", "consume_with_scope"}
          /\ last'.prog \in {"seven", "seven_mid"}) =>
         /\ result' = Ok(UnitV)
         /\ fns' = Install(fns, "six", InternalFn(Fn_six))
         /\ scope' = scope]_vars

\* the script with a function after the rejected one has been consumed on a
\* scope binding n: six is installed, seven and later are not
C28_Witness ==
    /\ last.op = "consume_with_scope" /\ last.prog = "seven_mid"
    /\ last.scope = <<Binding("n", IntV(2))>> /\ scope = last.scope
    /\ result = Ok(UnitV)
    /\ "six" \in DOMAIN fns /\ "seven" \notin DOMAIN fns /\ "later" \notin DOMAIN fns
\* ---- failed calls
\* the scope fail_mid leaves when run on s: b pushed, and n set where s binds it
AfterFailMid(s) ==
    Append(IF HasBinding(s, "n") THEN [s EXCEPT ![Innermost(s, "n")].val = IntV(3)] ELSE s,
           Binding("b", IntV(1)))

\* C29: `fn later(a) { a + 1 }  let b = 1; n = 3; zz; let c = 1;` fails: on
\* zz where the scope binds n, on n where it does not.  After
\* eval_with_scope / consume_with_scope has returned that error the caller's
\* scope holds the b pushed and the n assigned before the failing statement
\* (and no c), and later is installed; eval and consume leave later installed
\* too.  eval / eval_with_scope on a script whose second function has seven
\* parameters returns ArityNotSupported with the first function, six,
\* installed and nothing else.
C29_NoRollback ==
    [][/\ (last'.op \in {"eval_with_scope", "consume_with_scope"} /\ last'.prog = "fail_mid") =>
            /\ result' = IF HasBinding(scope, "n") THEN ErrorVariableNotFound("zz")
                         ELSE ErrorVariableNotFound("n")
            /\ scope' = AfterFailMid(scope)
            /\ fns' = Install(fns, "later", InternalFn(Fn_later))
       /\ (last'.op \in {"eval", "consume"} /\ last'.prog = "fail_mid") =>
            /\ result' = ErrorVariableNotFound("n")
            /\ fns' = Install(fns, "later", InternalFn(Fn_later))
       /\ (last'.op \in {"eval", "eval_with_scope"} /\ last'.prog \in {"seven", "seven_mid"}) =>
            /\ result' = ArityNotSupported
            /\ fns' = Install(fns, "six", InternalFn(Fn_six))]_vars

\* eval_with_scope has failed on zz: n = 3 and b = 1 are in the caller's scope
C29_Witness ==
    /\ last.op = "eval_with_scope" /\ last.prog = "fail_mid"
    /\ last.scope = <<Binding("n", IntV(2))>>
    /\ scope = <<Binding("n", IntV(3)), Binding("b", IntV(1))>>
    /\ result = ErrorVariableNotFound("zz")
    /\ "later" \in DOMAIN fns

\* eval_with_scope has refused the seven-parameter function and kept six
C29_WitnessArity ==
    /\ last.op = "eval_with_scope" /\ last.prog = "seven_mid"
    /\ result = ArityNotSupported
    /\ "six" \in DOMAIN fns /\ "later" \notin DOMAIN fns
\* ---- reads
\* the variable a read script reads
ReadName == LastOs[1].e.n
\* the types for which the registry holds a clone candidate
Clonable == {"i64", "bool", "Point", "Outer"}

\* C30: reading n or a gives what call_fn("clone", ..) gives on the innermost
\* binding of the name.  Where that binding holds unit (after `let n;`) or an
\* array the read gives ErrorFunctionArgMismatch, neither the value nor
\* VariableNotFound; where it holds an i64 or a Point the read gives the
\* value.  h(n, 1) on a scope whose n holds unit fails the same way.  The
\* scope is in each case the one before.
C30_ReadsGoThroughClone ==
    /\ (last.op = "eval_with_scope" /\ last.prog \in {"read_n", "read_a"}
          /\ HasBinding(last.scope, ReadName)) =>
         /\ scope = last.scope
         /\ result = Downcast(self_call_fn(fns, "clone", <<Before(ReadName)>>).r, last.T)
         /\ Before(ReadName).t \notin Clonable => result = ErrorFunctionArgMismatch
         /\ (Before(ReadName).t \in Clonable /\ last.T = Before(ReadName).t) =>
              result = Ok(Before(ReadName))
    /\ (last.op = "eval_with_scope" /\ last.prog = "call_h"
          /\ HasBinding(last.scope, "n") /\ Before("n").t \notin Clonable) =>
         result = ErrorFunctionArgMismatch /\ scope = last.scope

\* n declared by `let n;` has been read: no value, and n still holds unit
C30_Witness ==
    /\ last.op = "eval_with_scope" /\ last.prog = "read_n"
    /\ last.scope = <<Binding("n", UnitV)>> /\ scope = last.scope
    /\ result = ErrorFunctionArgMismatch

\* an array has been read
C30_WitnessArray ==
    /\ last.op = "eval_with_scope" /\ last.prog = "read_a"
    /\ last.scope = <<Binding("a", ArrV(<<IntV(1), IntV(2)>>))>> /\ scope = last.scope
    /\ result = ErrorFunctionArgMismatch

\* unit has been passed to a script function
C30_WitnessCall ==
    /\ last.op = "eval_with_scope" /\ last.prog = "call_h"
    /\ last.scope = <<Binding("n", UnitV)>> /\ scope = last.scope
    /\ result = ErrorFunctionArgMismatch
====
